---- MODULE Spec2Model ----
(***************************************************************************)
(* DeadNetGuard backend: the channel reputation and moderation engine.     *)
(*                                                                         *)
(* The express handlers of routes/report.ts, routes/vote.ts,               *)
(* routes/banlist.ts and routes/admin.ts are async functions; every        *)
(* `await prisma...` is one atomic statement of the PostgreSQL store and   *)
(* a point where other requests interleave.  A request slot r walks        *)
(* through its handler one store statement per step (pc[r]); loc[r] holds  *)
(* the handler's local variables.                                          *)
(***************************************************************************)
EXTENDS Integers, FiniteSets, Sequences, Bags, TLC

(***************************************************************************)
(* Bounds of the model.                                                    *)
(***************************************************************************)
MaxOps == 6          \* report and vote requests started in a concurrent behaviour
MaxSeqOps == 8       \* report and vote requests started in a sequential behaviour
MaxAdminOps == 1     \* admin ban / unban / delete calls in a sequential behaviour
MaxSetups == 3       \* bootstrapAdmin requests started in a behaviour
MaxListed == 3       \* Channel rows in the store a listPending call reads
MaxAuthOps == 3        \* admin-area and listing requests started in a behaviour
MaxIntakeOps == 3      \* requests with bodies of every shape started in a behaviour
MaxVoteOps == 3        \* votes cast on a store of two channels in a behaviour
MaxVersionOps == 3     \* admin calls and version reads on a store of two channels
MaxBlocklistMsgs == 3  \* blocklist messages the worker handles one at a time
MaxWorkerMsgs == 3     \* UPDATE_STATS messages and syncs of the worker, interleaving

Req == {1, 2}                     \* request slots: two requests may be in flight at once
ExternalIds == {"abc"}
Visitors == {"v1", "v2", "v3"}
RaceVisitors == {"v1", "v2"}      \* the visitors of the concurrent workload
Reporters == {"v1"}               \* reporterTokens carried by reports
Values == {-1, 1}
Usernames == {"alice", "bob"}
Passwords == {"pw1", "pw2"}

\* every id the store can hand out to a Channel row within the bounds; a vote names
\* an id handed out so far or the next one, which no Channel row has yet
ChanIds == 1..(Cardinality(ExternalIds) * (MaxAdminOps + 1))

(***************************************************************************)
(* Program constants.                                                      *)
(***************************************************************************)
BAN_THRESHOLD_REPORTS == 5
BAN_THRESHOLD_SCORE == 3
SESSION_TTL == 2     \* 24 * 60 * 60 * 1000 ms; the clock of the model counts half days

\* the clock runs until a session issued at time 0 has expired
MaxTime == SESSION_TTL + 1

VARIABLES
    channels,      \* Channel table: id -> [youtubeId, reportCount, score, isBanned]
    nextId,        \* next fresh Channel id (ids are never reused)
    reports,       \* Report table: bag of [channelId, userId]
    votes,         \* Vote table: bag of [channelId, visitorId, value]
    admins,        \* Admin table (committed rows): set of [username, password]
    pc,            \* per request slot: position in its handler
    loc,           \* per request slot: the handler's locals and its response
    nOps,          \* report and vote requests started so far
    nAdmin,        \* admin ban / unban / delete calls so far
    nSetups,       \* bootstrapAdmin requests started so far
    okReports,     \* history: successful submitReport responses per externalId
    adminBanned,   \* history: channel ids an admin banChannel was applied to
    unbanApplied,  \* history: channel ids an admin unbanChannel was applied to
    everMet,       \* history: channel ids whose counters once met both thresholds
    sessions,      \* AdminSession table: set of [token, username, expiresAt]
    now,           \* the server clock (Date.now(), new Date())
    nTokens,       \* session tokens generated so far
    updatedAt,     \* Channel.updatedAt per channel id
    nAuth,         \* admin-area and listing requests started so far
    lastChanged,   \* history: per username, the password of the last admin.update
    storage,       \* extension: chrome.storage.local of the browser
    wpc,           \* extension worker, per message slot: position in its handler
    wloc,          \* extension worker, per message slot: the handler's locals, its result
    nMsgs,         \* extension worker: messages and syncs started so far
    sumBlocked     \* history: sum of the blocked amounts of the UPDATE_STATS messages

vars == <<channels, nextId, reports, votes, admins, pc, loc, nOps, nAdmin, nSetups,
          okReports, adminBanned, unbanApplied, everMet,
          sessions, now, nTokens, updatedAt, nAuth, lastChanged,
          storage, wpc, wloc, nMsgs, sumBlocked>>

\* the browser extension: its storage and its background worker
ext == <<storage, wpc, wloc, nMsgs, sumBlocked>>

\* session store, clock and timestamps; in a behaviour whose clock does not advance
\* every write stamps the initial time, so updatedAt stays as it is
auth == <<sessions, now, nTokens, updatedAt, nAuth, lastChanged, ext>>

store == <<channels, nextId, reports, votes>>
budget == <<nOps, nAdmin, nSetups>>
history == <<okReports, adminBanned, unbanApplied>>

NoLoc ==
    [op |-> "none", youtubeId |-> "", visitorId |-> "", channelId |-> 0,
     value |-> 0, existing |-> 0, scoreDelta |-> 0, first |-> FALSE,
     chkReports |-> 0, chkScore |-> 0, updScore |-> 0, updBanned |-> FALSE,
     username |-> "", password |-> "", startedEmpty |-> FALSE,
     token |-> "", sessFound |-> FALSE, sessUser |-> "", sessExp |-> 0,
     adminFound |-> FALSE, adminHash |-> << >>, newPassword |-> "", changedTo |-> "",
     version |-> 0, listed |-> << >>, status |-> 0, error |-> "",
     voted |-> FALSE, res |-> "none", resBanned |-> FALSE]

\* the worker's message slots and the locals of a handler
Msg == {1, 2}

NoWloc == [type |-> "none"]

\* lastSyncAt: null, a value no Date.now() gives
NeverSynced == 0 - 1

\* DEFAULT_SETTINGS and DEFAULT_STATS
DefaultSettings ==
    [enabled |-> TRUE, showOverlay |-> TRUE, syncEnabled |-> TRUE,
     lastSyncAt |-> NeverSynced]

DefaultStats == [blockedToday |-> 0, blockedTotal |-> 0, lastBlockedChannel |-> "null"]

\* chrome.runtime.onInstalled: chrome.storage.local.set({ settings, personalBlocklist: [],
\* communityBlocklist: [], stats }), no message in progress
ExtensionInstalled ==
    /\ storage = [settings |-> DefaultSettings, personalBlocklist |-> << >>,
                  communityBlocklist |-> << >>, stats |-> DefaultStats]
    /\ wpc = [m \in Msg |-> "idle"]
    /\ wloc = [m \in Msg |-> NoWloc]
    /\ nMsgs = 0
    /\ sumBlocked = 0

Init ==
    /\ channels = << >>
    /\ nextId = 1
    /\ reports = EmptyBag
    /\ votes = EmptyBag
    /\ admins = {}
    /\ pc = [r \in Req |-> "idle"]
    /\ loc = [r \in Req |-> NoLoc]
    /\ nOps = 0
    /\ nAdmin = 0
    /\ nSetups = 0
    /\ okReports = [y \in ExternalIds |-> 0]
    /\ adminBanned = {}
    /\ unbanApplied = {}
    /\ everMet = {}
    /\ sessions = {}
    /\ now = 0
    /\ nTokens = 0
    /\ updatedAt = [c \in ChanIds |-> 0]
    /\ nAuth = 0
    /\ lastChanged = [u \in Usernames |-> ""]
    /\ ExtensionInstalled

(***************************************************************************)
(* Store helpers (Prisma client calls on the PostgreSQL store).            *)
(***************************************************************************)
ChannelExists(c) == c \in DOMAIN channels

\* prisma.channel.findUnique({ where: { youtubeId } }): the id, or 0 for null
ChannelIdByYoutubeId(y) ==
    IF \E c \in DOMAIN channels : channels[c].youtubeId = y
    THEN CHOOSE c \in DOMAIN channels : channels[c].youtubeId = y
    ELSE 0

\* rows of a bag that satisfy a test, with their multiplicities
RowsOf(bag, c) == {row \in BagToSet(bag) : row.channelId = c}

RECURSIVE BagCount(_, _)
BagCount(bag, rows) ==
    IF rows = {} THEN 0
    ELSE LET row == CHOOSE x \in rows : TRUE
         IN CopiesIn(row, bag) + BagCount(bag, rows \ {row})

RECURSIVE VoteSum(_, _)
VoteSum(bag, rows) ==
    IF rows = {} THEN 0
    ELSE LET row == CHOOSE x \in rows : TRUE
         IN row.value * CopiesIn(row, bag) + VoteSum(bag, rows \ {row})

\* number of Report rows referencing channel c
ReportRows(c) == BagCount(reports, RowsOf(reports, c))

\* Vote rows of (channel, visitor)
VoteRowsOf(c, v) == {row \in BagToSet(votes) : row.channelId = c /\ row.visitorId = v}
VoteRowCount(c, v) == BagCount(votes, VoteRowsOf(c, v))

\* signed sum of the Vote rows that currently exist for channel c
VoteTotal(c) == VoteSum(votes, RowsOf(votes, c))

\* variant: a delete that leaves the rows of the channel behind
WithoutChannel_Keep(bag, c) == bag

\* ON DELETE CASCADE from Channel to Report and Vote
WithoutChannel(bag, c) ==
    LET keep == {row \in BagToSet(bag) : row.channelId # c}
    IN [row \in keep |-> CopiesIn(row, bag)]

\* the claim's threshold pair, stated on a channel row (history bookkeeping only)
CountersSatisfyBoth(ch) == ch.reportCount >= 5 /\ ch.score >= 3

TrackEverMet ==
    everMet' = (everMet \cap DOMAIN channels')
               \cup {c \in DOMAIN channels' : CountersSatisfyBoth(channels'[c])}

Goto(r, label, newloc) ==
    /\ pc' = [pc EXCEPT ![r] = label]
    /\ loc' = [loc EXCEPT ![r] = newloc]

\* the handler returns: its locals end, the request and its response remain
Answered(l, kind, banned) ==
    [NoLoc EXCEPT !.op = l.op, !.channelId = l.channelId,
                  !.visitorId = IF l.op = "vote" THEN l.visitorId ELSE "",
                  !.value = l.value, !.first = l.first,
                  !.username = l.username, !.startedEmpty = l.startedEmpty,
                  !.res = kind, !.resBanned = banned]

Respond(r, kind, banned) == Goto(r, "done", Answered(loc[r], kind, banned))

\* a store statement throws: the catch block answers 500
Fail(r, kind) ==
    /\ Respond(r, kind, FALSE)
    /\ UNCHANGED store

\* a slot is free once its response is out; a new request takes the first free slot
Free(r) == pc[r] \in {"idle", "done"}
Takes(r) == Free(r) /\ \A q \in Req : q < r => ~Free(q)

(***************************************************************************)
(* Auto-Ban Evaluator: checkAutoBan (routes/banlist.ts).                    *)
(***************************************************************************)
\* variants of the threshold test that a slip in the condition would produce
MeetsBanThreshold_Strict(reportCount, score) ==
    reportCount > BAN_THRESHOLD_REPORTS /\ score >= BAN_THRESHOLD_SCORE

MeetsBanThreshold_ScoreOnly(reportCount, score) ==
    score >= BAN_THRESHOLD_SCORE

MeetsBanThreshold_ReportsOnly(reportCount, score) ==
    reportCount >= BAN_THRESHOLD_REPORTS

MeetsBanThreshold_ScoreStrict(reportCount, score) ==
    reportCount >= BAN_THRESHOLD_REPORTS /\ score > BAN_THRESHOLD_SCORE

\* channel.reportCount >= BAN_THRESHOLD_REPORTS && channel.score >= BAN_THRESHOLD_SCORE
MeetsBanThreshold(reportCount, score) ==
    reportCount >= BAN_THRESHOLD_REPORTS /\ score >= BAN_THRESHOLD_SCORE

\* variant: a ban flag written together with a reset of the score
WithIsBanned_ScoreReset(ch, banned) == [ch EXCEPT !.isBanned = banned, !.score = 0]

\* variant: a ban flag that is flipped instead of set
WithIsBanned_Flipped(ch, banned) == [ch EXCEPT !.isBanned = ~@]

\* prisma.channel.update({ where: { id }, data: { isBanned: ... } })
WithIsBanned(ch, banned) == [ch EXCEPT !.isBanned = banned]

\* what the handler does once checkAutoBan has returned
AfterCheck(r, l) ==
    LET back == [l EXCEPT !.chkReports = 0, !.chkScore = 0]   \* checkAutoBan's locals end
    IN IF l.op = "report"
       THEN Goto(r, "rep_refresh", back)
       ELSE \* vote: res.json({ success, channel: { score, isBanned } of updatedChannel })
            Goto(r, "done", Answered(l, "ok", l.updBanned))

\* const channel = await prisma.channel.findUnique({ where: { id } }); the tests on it
CheckAutoBanRead(r) ==
    /\ pc[r] = "chk_read"
    /\ LET c == loc[r].channelId IN
       IF ~ChannelExists(c)
       THEN AfterCheck(r, loc[r])
       ELSE LET l == [loc[r] EXCEPT !.chkReports = channels[c].reportCount,
                                    !.chkScore = channels[c].score]
            IN IF MeetsBanThreshold(l.chkReports, l.chkScore)
               THEN Goto(r, "chk_write", l)
               ELSE AfterCheck(r, l)
    /\ UNCHANGED <<store, admins, budget, history, everMet>>
    /\ UNCHANGED auth

\* await prisma.channel.update({ where: { id }, data: { isBanned: true } })
CheckAutoBanWrite(r) ==
    /\ pc[r] = "chk_write"
    /\ LET c == loc[r].channelId IN
       IF ChannelExists(c)
       THEN /\ channels' = [channels EXCEPT ![c] = WithIsBanned(@, TRUE)]
            /\ AfterCheck(r, loc[r])
            /\ UNCHANGED <<nextId, reports, votes>>
       ELSE Fail(r, "InternalError")
    /\ TrackEverMet
    /\ UNCHANGED <<admins, budget, history>>
    /\ UNCHANGED auth

(***************************************************************************)
(* Report Intake: POST /api/report (routes/report.ts).                      *)
(***************************************************************************)
\* isBanned of a row created without the field (the schema's column default)
DefaultIsBanned == FALSE

\* data.channelName: every report of an externalId carries the same display name
ChannelName(y) == <<"name of", y>>

\* prisma.channel.create({ data: { youtubeId, name, reportCount: 1, score: 1 } })
NewChannel(y) ==
    [youtubeId |-> y, name |-> ChannelName(y), reportCount |-> 1, score |-> 1,
     isBanned |-> DefaultIsBanned]

\* variant: a repeated report that forgets the score increment
ReportedAgain_NoScore(ch) ==
    [ch EXCEPT !.reportCount = @ + 1]

\* variant: a repeated report that also writes the column default of isBanned
ReportedAgain_ResetBan(ch) ==
    [ch EXCEPT !.reportCount = @ + 1, !.score = @ + 1, !.isBanned = FALSE]

\* prisma.channel.update({ data: { reportCount: {increment: 1}, score: {increment: 1} } })
ReportedAgain(ch) ==
    [ch EXCEPT !.reportCount = @ + 1, !.score = @ + 1, !.name = ChannelName(ch.youtubeId)]

\* reportSchema.parse, then channel = await prisma.channel.findUnique({ youtubeId })
ReportFindChannel(r, y, v) ==
    /\ Takes(r)
    /\ nOps' = nOps + 1
    /\ Goto(r, "rep_upsert",
            [NoLoc EXCEPT !.op = "report", !.youtubeId = y, !.visitorId = v,
                          !.channelId = ChannelIdByYoutubeId(y)])
    /\ UNCHANGED <<store, admins, nAdmin, nSetups, history, everMet>>
    /\ UNCHANGED auth

\* if (channel) channel.update(...) else channel.create(...)
ReportUpsert(r) ==
    /\ pc[r] = "rep_upsert"
    /\ LET c == loc[r].channelId
           y == loc[r].youtubeId
       IN IF c # 0
          THEN IF ChannelExists(c)
               THEN /\ channels' = [channels EXCEPT ![c] = ReportedAgain(@)]
                    /\ Goto(r, "rep_insert", loc[r])
                    /\ UNCHANGED <<nextId, reports, votes>>
               ELSE Fail(r, "InternalError")      \* record to update not found
          ELSE IF ChannelIdByYoutubeId(y) # 0
               THEN Fail(r, "InternalError")      \* unique constraint on youtubeId
               ELSE /\ channels' = (nextId :> NewChannel(y)) @@ channels
                    /\ nextId' = nextId + 1
                    /\ Goto(r, "rep_insert", [loc[r] EXCEPT !.channelId = nextId])
                    /\ UNCHANGED <<reports, votes>>
    /\ TrackEverMet
    /\ UNCHANGED <<admins, budget, history>>
    /\ UNCHANGED auth

\* await prisma.report.create({ data: { channelId: channel.id, userId, ... } })
ReportInsert(r) ==
    /\ pc[r] = "rep_insert"
    /\ LET c == loc[r].channelId IN
       IF ChannelExists(c)
       THEN /\ reports' = reports (+) SetToBag({[channelId |-> c,
                                                 userId |-> loc[r].visitorId]})
            /\ Goto(r, "chk_read", loc[r])
            /\ UNCHANGED <<channels, nextId, votes>>
       ELSE Fail(r, "InternalError")              \* foreign key on channelId
    /\ UNCHANGED <<admins, budget, history, everMet>>
    /\ UNCHANGED auth

\* updatedChannel = await prisma.channel.findUnique({ id }); res.json(...)
ReportRefresh(r) ==
    /\ pc[r] = "rep_refresh"
    /\ LET c == loc[r].channelId IN
       IF ChannelExists(c)
       THEN /\ Respond(r, "ok", channels[c].isBanned)
            /\ okReports' = [okReports EXCEPT ![loc[r].youtubeId] = @ + 1]
       ELSE /\ Respond(r, "InternalError", FALSE) \* updatedChannel! is null
            /\ UNCHANGED okReports
    /\ UNCHANGED <<store, admins, budget, adminBanned, unbanApplied, everMet>>
    /\ UNCHANGED auth

(***************************************************************************)
(* Vote Ledger: POST /api/vote (routes/vote.ts).                            *)
(***************************************************************************)
\* variant: no duplicate test, a repeated vote is handled as a change
AlreadyVoted_Never(existing, value) == FALSE

\* if (existingVote.value === data.value) return 400 'Already voted'
AlreadyVoted(existing, value) == existing # 0 /\ existing = value

\* variant: the naive delta that adds the new value and ignores the old one
ScoreDelta_Naive(existing, value) == value

\* let scoreDelta = data.value; on a changed vote: scoreDelta = data.value * 2
ScoreDelta(existing, value) == IF existing # 0 THEN value * 2 ELSE value

\* variant: a Vote table without the compound unique constraint
VoteUniqueViolation_Off(c, v) == FALSE

\* @@unique([channelId, visitorId]) behind findUnique({ channelId_visitorId })
VoteUniqueViolation(c, v) == VoteRowsOf(c, v) # {}

\* variant: an update that matches every Vote row of the channel
VoteUpdated_WholeChannel(c, v, value) ==
    SetToBag({row \in BagToSet(votes) : row.channelId # c})
    (+) SetToBag({[channelId |-> c, visitorId |-> row.visitorId, value |-> value] :
                     row \in RowsOf(votes, c)})

\* the Vote table after vote.update({ where: { id: existingVote.id }, data: { value } })
VoteUpdated(c, v, value) ==
    LET old == CHOOSE row \in VoteRowsOf(c, v) : TRUE
    IN (votes (-) SetToBag({old}))
       (+) SetToBag({[channelId |-> c, visitorId |-> v, value |-> value]})

\* variant: no test of the looked-up channel
VoteChannelMissing_Never(c) == FALSE

\* if (!channel) return res.status(404).json({ error: 'Channel not found' })
VoteChannelMissing(c) == ~ChannelExists(c)

\* voteSchema.parse, then channel = await prisma.channel.findUnique({ id })
VoteFindChannel(r, c, v, value) ==
    /\ Takes(r)
    /\ nOps' = nOps + 1
    /\ LET l == [NoLoc EXCEPT !.op = "vote", !.channelId = c, !.visitorId = v,
                              !.value = value, !.first = (VoteRowsOf(c, v) = {})]
       IN IF VoteChannelMissing(c)
          THEN Goto(r, "done", Answered(l, "NotFound", FALSE))
          ELSE Goto(r, "vote_find", l)
    /\ UNCHANGED <<store, admins, nAdmin, nSetups, history, everMet>>
    /\ UNCHANGED auth

\* existingVote = await prisma.vote.findUnique({ channelId_visitorId }); duplicate test
VoteFindExisting(r) ==
    /\ pc[r] = "vote_find"
    /\ LET c == loc[r].channelId
           v == loc[r].visitorId
           existing == IF VoteRowsOf(c, v) = {} THEN 0
                       ELSE (CHOOSE row \in VoteRowsOf(c, v) : TRUE).value
           l == [loc[r] EXCEPT !.existing = existing,
                               !.scoreDelta = ScoreDelta(existing, loc[r].value)]
       IN IF AlreadyVoted(existing, loc[r].value)
          THEN Goto(r, "done", Answered(l, "DuplicateVote", FALSE))
          ELSE Goto(r, "vote_write", l)
    /\ UNCHANGED <<store, admins, budget, history, everMet>>
    /\ UNCHANGED auth

\* if (existingVote) await prisma.vote.update(...) else await prisma.vote.create(...)
VoteWrite(r) ==
    /\ pc[r] = "vote_write"
    /\ LET c == loc[r].channelId
           v == loc[r].visitorId
       IN IF loc[r].existing # 0
          THEN IF VoteRowsOf(c, v) # {}
               THEN /\ votes' = VoteUpdated(c, v, loc[r].value)
                    /\ Goto(r, "vote_score", loc[r])
                    /\ UNCHANGED <<channels, nextId, reports>>
               ELSE Fail(r, "InternalError")      \* record to update not found
          ELSE IF ~ChannelExists(c) \/ VoteUniqueViolation(c, v)
               THEN Fail(r, "InternalError")      \* foreign key / unique constraint
               ELSE /\ votes' = votes (+) SetToBag({[channelId |-> c, visitorId |-> v,
                                                     value |-> loc[r].value]})
                    /\ Goto(r, "vote_score", loc[r])
                    /\ UNCHANGED <<channels, nextId, reports>>
    /\ UNCHANGED <<admins, budget, history, everMet>>
    /\ UNCHANGED auth

\* variant: the score written instead of incremented
IncrementedScore_Set(ch, delta) == [ch EXCEPT !.score = delta]

\* data: { score: { increment: scoreDelta } }: the store adds to the value it holds
IncrementedScore(ch, delta) == [ch EXCEPT !.score = @ + delta]

\* updatedChannel = await prisma.channel.update({ data: { score: { increment } } })
VoteUpdateScore(r) ==
    /\ pc[r] = "vote_score"
    /\ LET c == loc[r].channelId IN
       IF ChannelExists(c)
       THEN /\ channels' = [channels EXCEPT
                                ![c] = IncrementedScore(@, loc[r].scoreDelta)]
            /\ Goto(r, "chk_read",
                    [loc[r] EXCEPT !.updScore =
                                      IncrementedScore(channels[c], loc[r].scoreDelta).score,
                                   !.updBanned = channels[c].isBanned])
            /\ UNCHANGED <<nextId, reports, votes>>
       ELSE Fail(r, "InternalError")              \* record to update not found
    /\ TrackEverMet
    /\ UNCHANGED <<admins, budget, history>>
    /\ UNCHANGED auth

(***************************************************************************)
(* Admin Authority: manual override of a channel (routes/admin.ts).         *)
(* The handlers below run behind requireAdmin with a valid session.         *)
(***************************************************************************)
\* POST /ban/:channelId: prisma.channel.update({ data: { isBanned: true } })
AdminBan(c) ==
    /\ ChannelExists(c)
    /\ nAdmin' = nAdmin + 1
    /\ channels' = [channels EXCEPT ![c] = WithIsBanned(@, TRUE)]
    /\ adminBanned' = adminBanned \cup {c}
    /\ TrackEverMet
    /\ UNCHANGED <<nextId, reports, votes, admins, pc, loc, nOps, nSetups, okReports,
                   unbanApplied>>
    /\ UNCHANGED auth

\* POST /unban/:channelId: prisma.channel.update({ data: { isBanned: false } })
AdminUnban(c) ==
    /\ ChannelExists(c)
    /\ nAdmin' = nAdmin + 1
    /\ channels' = [channels EXCEPT ![c] = WithIsBanned(@, FALSE)]
    /\ unbanApplied' = unbanApplied \cup {c}
    /\ TrackEverMet
    /\ UNCHANGED <<nextId, reports, votes, admins, pc, loc, nOps, nSetups, okReports,
                   adminBanned>>
    /\ UNCHANGED auth

\* DELETE /channel/:channelId: prisma.channel.delete, cascading to Reports and Votes
AdminDelete(c) ==
    /\ ChannelExists(c)
    /\ nAdmin' = nAdmin + 1
    /\ channels' = [d \in DOMAIN channels \ {c} |-> channels[d]]
    /\ reports' = WithoutChannel(reports, c)
    /\ votes' = WithoutChannel(votes, c)
    /\ adminBanned' = adminBanned \ {c}
    /\ unbanApplied' = unbanApplied \ {c}
    /\ TrackEverMet
    /\ UNCHANGED <<nextId, admins, pc, loc, nOps, nSetups, okReports>>
    /\ UNCHANGED auth

(***************************************************************************)
(* Bootstrap Guard: POST /api/admin/setup (routes/admin.ts).               *)
(* prisma.$transaction(async tx => ...) is called without an               *)
(* isolationLevel option, so the interactive transaction runs at the       *)
(* store's default level, READ COMMITTED: each statement sees the rows      *)
(* committed when it starts, and an insert that meets an uncommitted row    *)
(* with the same unique key waits for that transaction to end.              *)
(***************************************************************************)
\* bcrypt.hash(password, BCRYPT_ROUNDS): a digest, never the password itself
HashPassword(p) == <<"bcrypt", p>>

\* usernames inserted by transactions that have not committed yet
PendingUsernames(r) ==
    {loc[q].username : q \in {x \in Req \ {r} : pc[x] = "setup_commit"}}

\* z.object({ username, password }).parse(req.body); the transaction begins
SetupStart(r, u, p) ==
    /\ Takes(r)
    /\ nSetups < MaxSetups
    /\ nSetups' = nSetups + 1
    /\ Goto(r, "setup_count",
            [NoLoc EXCEPT !.op = "setup", !.username = u, !.password = p,
                          !.startedEmpty = (admins = {})])
    /\ UNCHANGED <<store, admins, nOps, nAdmin, history, everMet>>
    /\ UNCHANGED auth

\* variant: a bootstrap that never looks at the count
AdminExists_Never(adminCount) == FALSE

\* if (adminCount > 0) throw new Error('ADMIN_EXISTS')
AdminExists(adminCount) == adminCount > 0

\* const adminCount = await tx.admin.count(); if (adminCount > 0) throw ADMIN_EXISTS
SetupCount(r) ==
    /\ pc[r] = "setup_count"
    /\ IF AdminExists(Cardinality(admins))
       THEN Respond(r, "AdminAlreadyExists", FALSE)
       ELSE Goto(r, "setup_create", loc[r])
    /\ UNCHANGED <<store, admins, budget, history, everMet>>
    /\ UNCHANGED auth

\* return tx.admin.create({ data: { username, password: hashedPassword } })
SetupCreate(r) ==
    /\ pc[r] = "setup_create"
    /\ loc[r].username \notin PendingUsernames(r)
    /\ IF \E a \in admins : a.username = loc[r].username
       THEN Respond(r, "InternalError", FALSE)     \* unique constraint on username
       ELSE Goto(r, "setup_commit", loc[r])
    /\ UNCHANGED <<store, admins, budget, history, everMet>>
    /\ UNCHANGED auth

\* the callback has returned: the transaction commits; res.json({ success: true })
SetupCommit(r) ==
    /\ pc[r] = "setup_commit"
    /\ admins' = admins \cup {[username |-> loc[r].username,
                                password |-> HashPassword(loc[r].password)]}
    /\ Respond(r, "ok", FALSE)
    /\ UNCHANGED <<store, budget, history, everMet>>
    /\ UNCHANGED auth

(***************************************************************************)
(* Admin Authority: sessions and the protected calls (routes/admin.ts).     *)
(* requireAdmin reads the session, then tests it against the clock; the     *)
(* route handler runs in the same turn as the test that lets it through.    *)
(***************************************************************************)
NoToken == ""                   \* no Authorization header
ForgedToken == "forged"         \* a token no login ever returned
TokenPool == <<"t1", "t2">>     \* crypto.randomBytes(32): no value comes twice
IssuedTokens == {TokenPool[i] : i \in 1..nTokens}
ChannelOps == {"ban", "unban", "delete"}
AuthChannelIds == {1, 2}        \* channel ids named by admin calls

\* variant: a password test that accepts anything
VerifyPassword_Always(p, h) == TRUE

\* bcrypt.compare(password, hash)
VerifyPassword(p, h) == h = HashPassword(p)

\* prisma.adminSession.findUnique({ where: { token } })
SessionByToken(t) == {s \in sessions : s.token = t}

\* variant: a test that forgets the expiry
SessionExpired_Never(expiresAt, t) == FALSE

\* variant: a session taken as expired already at the instant of its expiresAt
SessionExpired_AtExpiry(expiresAt, t) == expiresAt <= t

\* session.expiresAt < new Date()
SessionExpired(expiresAt, t) == expiresAt < t

\* variant: a test that lets a request without a session row through
AuthRejected_UnknownPasses(found, expiresAt, t) == found /\ SessionExpired(expiresAt, t)

\* if (!session || session.expiresAt < new Date())
AuthRejected(found, expiresAt, t) == ~found \/ SessionExpired(expiresAt, t)

\* the response of an admin-area request: kind, HTTP status and error text
AuthAnswered(l, kind, status, error) ==
    [NoLoc EXCEPT !.op = l.op, !.channelId = l.channelId,
                  !.token = l.token, !.sessFound = l.sessFound,
                  !.adminFound = l.adminFound,
                  !.version = l.version, !.listed = l.listed,
                  !.res = kind, !.status = status, !.error = error]

Reply(r, kind, status, error) ==
    Goto(r, "done", AuthAnswered(loc[r], kind, status, error))

ReplyWith(r, reply) == Reply(r, reply.kind, reply.status, reply.error)

\* variant: an unknown username answered differently from a wrong password
LoginUnknownUser_Distinct ==
    [kind |-> "NotFound", status |-> 404, error |-> "Admin not found"]

\* if (!admin) return res.status(401).json({ error: 'Invalid credentials' })
LoginUnknownUser ==
    [kind |-> "InvalidCredentials", status |-> 401, error |-> "Invalid credentials"]

\* if (!isValid) return res.status(401).json({ error: 'Invalid credentials' })
LoginWrongPassword ==
    [kind |-> "InvalidCredentials", status |-> 401, error |-> "Invalid credentials"]

\* time passes
Tick ==
    /\ now < MaxTime
    /\ now' = now + 1
    /\ UNCHANGED <<store, admins, pc, loc, budget, history, everMet,
                   sessions, nTokens, updatedAt, nAuth, lastChanged>>
    /\ UNCHANGED ext

\* POST /login: parse, then admin = await prisma.admin.findUnique({ username })
LoginFind(r, u, p) ==
    /\ Takes(r)
    /\ nTokens + Cardinality({q \in Req : pc[q] = "login_check"}) < Len(TokenPool)
    /\ nAuth' = nAuth + 1
    /\ LET rows == {a \in admins : a.username = u}
           l == [NoLoc EXCEPT !.op = "login", !.username = u, !.password = p,
                              !.changedTo = lastChanged[u]]
       IN IF rows = {}
          THEN Goto(r, "login_check", l)
          ELSE Goto(r, "login_check",
                    [l EXCEPT !.adminFound = TRUE,
                              !.adminHash = (CHOOSE a \in rows : TRUE).password])
    /\ UNCHANGED <<store, admins, budget, history, everMet,
                   sessions, now, nTokens, updatedAt, lastChanged>>
    /\ UNCHANGED ext

\* the two credential tests, then await prisma.adminSession.create({ token, ... })
LoginCheck(r) ==
    /\ pc[r] = "login_check"
    /\ IF ~loc[r].adminFound
       THEN ReplyWith(r, LoginUnknownUser) /\ UNCHANGED <<sessions, nTokens>>
       ELSE IF ~VerifyPassword(loc[r].password, loc[r].adminHash)
       THEN ReplyWith(r, LoginWrongPassword) /\ UNCHANGED <<sessions, nTokens>>
       ELSE LET token == TokenPool[nTokens + 1]
                expiresAt == now + SESSION_TTL
            IN /\ sessions' = sessions \cup {[token |-> token,
                                              username |-> loc[r].username,
                                              expiresAt |-> expiresAt]}
               /\ nTokens' = nTokens + 1
               /\ Goto(r, "login_sweep",
                       [loc[r] EXCEPT !.token = token, !.sessExp = expiresAt])
    /\ UNCHANGED <<store, admins, budget, history, everMet,
                   now, updatedAt, nAuth, lastChanged>>
    /\ UNCHANGED ext

\* variant: a sweep that also deletes the sessions expiring at this instant
SweptSessions_AtExpiry == {s \in sessions : ~(s.expiresAt <= now)}

\* the AdminSession table after deleteMany({ where: { expiresAt: { lt: new Date() } } })
SweptSessions == {s \in sessions : ~(s.expiresAt < now)}

\* await prisma.adminSession.deleteMany({ expiresAt: { lt: new Date() } }); res.json
LoginSweep(r) ==
    /\ pc[r] = "login_sweep"
    /\ sessions' = SweptSessions
    /\ Reply(r, "ok", 200, "")
    /\ UNCHANGED <<store, admins, budget, history, everMet,
                   now, nTokens, updatedAt, nAuth, lastChanged>>
    /\ UNCHANGED ext

\* variant: a logout that deletes nothing
SessionsWithout_Kept(t) == sessions

\* the AdminSession table after delete({ where: { token } }), a missing row ignored
SessionsWithout(t) == sessions \ SessionByToken(t)

\* POST /logout: delete the session of the token; a missing row is ignored
Logout(r, t) ==
    /\ Takes(r)
    /\ nAuth' = nAuth + 1
    /\ sessions' = IF t = NoToken THEN sessions ELSE SessionsWithout(t)
    /\ Goto(r, "done", AuthAnswered([NoLoc EXCEPT !.op = "logout", !.token = t],
                                    "ok", 200, ""))
    /\ UNCHANGED <<store, admins, budget, history, everMet,
                   now, nTokens, updatedAt, lastChanged>>
    /\ UNCHANGED ext

\* requireAdmin: the token of the header, then await adminSession.findUnique({ token })
AuthFind(r, op, t, c, cur, new) ==
    /\ Takes(r)
    /\ nAuth' = nAuth + 1
    /\ LET l == [NoLoc EXCEPT !.op = op, !.token = t, !.channelId = c,
                              !.password = cur, !.newPassword = new]
           rows == SessionByToken(t)
       IN IF t = NoToken
          THEN Goto(r, "done", AuthAnswered(l, "Unauthenticated", 401,
                                            "No token provided"))
          ELSE IF rows = {}
          THEN Goto(r, "auth_check", l)
          ELSE LET s == CHOOSE x \in rows : TRUE
               IN Goto(r, "auth_check",
                       [l EXCEPT !.sessFound = TRUE, !.sessUser = s.username,
                                 !.sessExp = s.expiresAt])
    /\ UNCHANGED <<store, admins, budget, history, everMet,
                   sessions, now, nTokens, updatedAt, lastChanged>>
    /\ UNCHANGED ext

\* requireAdmin turns the request away, deleting the session row it found
AuthTurnAway(r) ==
    /\ IF loc[r].sessFound
       THEN IF SessionByToken(loc[r].token) # {}
            THEN /\ sessions' = sessions \ SessionByToken(loc[r].token)
                 /\ Reply(r, "Unauthenticated", 401, "Invalid or expired token")
            ELSE /\ UNCHANGED sessions          \* record to delete not found
                 /\ Reply(r, "Unauthenticated", 401, "Session verification failed")
       ELSE /\ UNCHANGED sessions
            /\ Reply(r, "Unauthenticated", 401, "Invalid or expired token")
    /\ UNCHANGED <<channels, reports, votes, updatedAt, adminBanned, unbanApplied>>

\* GET /verify
VerifyHandler(r) ==
    /\ Reply(r, "ok", 200, "")
    /\ UNCHANGED <<channels, reports, votes, sessions, updatedAt,
                   adminBanned, unbanApplied>>

\* POST /ban/:channelId and POST /unban/:channelId
SetBanHandler(r, banned) ==
    LET c == loc[r].channelId IN
    /\ IF ChannelExists(c)
       THEN /\ channels' = [channels EXCEPT ![c] = WithIsBanned(@, banned)]
            /\ updatedAt' = [updatedAt EXCEPT ![c] = now]
            /\ adminBanned' = IF banned THEN adminBanned \cup {c} ELSE adminBanned
            /\ unbanApplied' = IF banned THEN unbanApplied ELSE unbanApplied \cup {c}
            /\ Goto(r, "done", [AuthAnswered(loc[r], "ok", 200, "")
                                   EXCEPT !.resBanned = banned])
       ELSE /\ Reply(r, "InternalError", 500,
                     IF banned THEN "Failed to ban channel"
                               ELSE "Failed to unban channel")
            /\ UNCHANGED <<channels, updatedAt, adminBanned, unbanApplied>>
    /\ UNCHANGED <<reports, votes, sessions>>

\* DELETE /channel/:channelId
DeleteHandler(r) ==
    LET c == loc[r].channelId IN
    /\ IF ChannelExists(c)
       THEN /\ channels' = [d \in DOMAIN channels \ {c} |-> channels[d]]
            /\ reports' = WithoutChannel(reports, c)
            /\ votes' = WithoutChannel(votes, c)
            /\ adminBanned' = adminBanned \ {c}
            /\ unbanApplied' = unbanApplied \ {c}
            /\ Reply(r, "ok", 200, "")
       ELSE /\ Reply(r, "InternalError", 500, "Failed to delete channel")
            /\ UNCHANGED <<channels, reports, votes, adminBanned, unbanApplied>>
    /\ UNCHANGED <<sessions, updatedAt>>

\* POST /change-password: parse, then admin = await prisma.admin.findUnique
ChangePasswordFind(r) ==
    /\ LET u == loc[r].sessUser
           rows == {a \in admins : a.username = u}
           l == [loc[r] EXCEPT !.username = u]
       IN IF rows = {}
          THEN Goto(r, "cp_update", l)
          ELSE Goto(r, "cp_update",
                    [l EXCEPT !.adminFound = TRUE,
                              !.adminHash = (CHOOSE a \in rows : TRUE).password])
    /\ UNCHANGED <<channels, reports, votes, sessions, updatedAt,
                   adminBanned, unbanApplied>>

\* requireAdmin resumes with the session it read; next() enters the route handler
AuthCheck(r) ==
    /\ pc[r] = "auth_check"
    /\ IF AuthRejected(loc[r].sessFound, loc[r].sessExp, now)
       THEN AuthTurnAway(r)
       ELSE CASE loc[r].op = "verify" -> VerifyHandler(r)
              [] loc[r].op = "ban" -> SetBanHandler(r, TRUE)
              [] loc[r].op = "unban" -> SetBanHandler(r, FALSE)
              [] loc[r].op = "delete" -> DeleteHandler(r)
              [] OTHER -> ChangePasswordFind(r)
    /\ TrackEverMet
    /\ UNCHANGED <<nextId, admins, budget, okReports, now, nTokens, nAuth, lastChanged>>
    /\ UNCHANGED ext

\* the current-password test, then await prisma.admin.update({ password })
CpUpdate(r) ==
    /\ pc[r] = "cp_update"
    /\ LET u == loc[r].username
           rows == {a \in admins : a.username = u}
       IN IF ~loc[r].adminFound
          THEN /\ Reply(r, "NotFound", 404, "Admin not found")
               /\ UNCHANGED <<admins, lastChanged>>
          ELSE IF ~VerifyPassword(loc[r].password, loc[r].adminHash)
          THEN /\ Reply(r, "InvalidCredentials", 401, "Current password is incorrect")
               /\ UNCHANGED <<admins, lastChanged>>
          ELSE IF rows = {}
          THEN /\ Reply(r, "InternalError", 500, "Failed to change password")
               /\ UNCHANGED <<admins, lastChanged>>
          ELSE /\ admins' = (admins \ rows)
                            \cup {[username |-> u,
                                   password |-> HashPassword(loc[r].newPassword)]}
               /\ lastChanged' = [lastChanged EXCEPT ![u] = loc[r].newPassword]
               /\ Goto(r, "cp_sessions", loc[r])
    /\ UNCHANGED <<store, budget, history, everMet,
                   sessions, now, nTokens, updatedAt, nAuth>>
    /\ UNCHANGED ext

\* variant: a password change that leaves the sessions alone
SessionsOfOthers_KeepAll(u) == sessions

\* what deleteMany({ where: { username } }) leaves in the AdminSession table
SessionsOfOthers(u) == {s \in sessions : s.username # u}

\* await prisma.adminSession.deleteMany({ where: { username } }); res.json
CpSessions(r) ==
    /\ pc[r] = "cp_sessions"
    /\ sessions' = SessionsOfOthers(loc[r].username)
    /\ Reply(r, "ok", 200, "")
    /\ UNCHANGED <<store, admins, budget, history, everMet,
                   now, nTokens, updatedAt, nAuth, lastChanged>>
    /\ UNCHANGED ext

(***************************************************************************)
(* Ban list (routes/banlist.ts).                                            *)
(***************************************************************************)
BannedIds == {c \in DOMAIN channels : channels[c].isBanned}

\* GET /version: findFirst({ isBanned: true }, orderBy updatedAt desc)?.updatedAt || 0
BanlistVersion ==
    IF BannedIds = {} THEN 0
    ELSE updatedAt[CHOOSE c \in BannedIds : \A d \in BannedIds : updatedAt[d] <= updatedAt[c]]

\* GET /: findMany({ isBanned: true }); res.json({ version: Date.now(), count, channels })
ListBanned(r) ==
    /\ Takes(r)
    /\ nAuth' = nAuth + 1
    /\ Goto(r, "done", AuthAnswered([NoLoc EXCEPT !.op = "list", !.version = now],
                                    "ok", 200, ""))
    /\ UNCHANGED <<store, admins, budget, history, everMet,
                   sessions, now, nTokens, updatedAt, lastChanged>>
    /\ UNCHANGED ext

\* GET /version
ListVersion(r) ==
    /\ Takes(r)
    /\ nAuth' = nAuth + 1
    /\ Goto(r, "done", AuthAnswered([NoLoc EXCEPT !.op = "version",
                                                  !.version = BanlistVersion],
                                    "ok", 200, ""))
    /\ UNCHANGED <<store, admins, budget, history, everMet,
                   sessions, now, nTokens, updatedAt, lastChanged>>
    /\ UNCHANGED ext

\* variant: a filter that forgets the ban flag
IsPending_AnyBanState(ch) == ch.reportCount >= 1

\* where: { isBanned: false, reportCount: { gte: 1 } }
IsPending(ch) == ch.isBanned = FALSE /\ ch.reportCount >= 1

\* orderBy: [{ score: 'desc' }, { reportCount: 'desc' }]: row a may come before row b
PendingBefore(a, b) ==
    \/ a.score > b.score
    \/ a.score = b.score /\ a.reportCount >= b.reportCount

\* the results findMany may return: the selected rows in an order the orderBy allows
\* (rows equal in score and reportCount come in either order)
PendingResults ==
    LET sel == {c \in DOMAIN channels : IsPending(channels[c])}
        n == Cardinality(sel)
    IN {s \in [1..n -> sel] :
           /\ \A i, j \in 1..n : i # j => s[i] # s[j]
           /\ \A i, j \in 1..n : i < j => PendingBefore(channels[s[i]], channels[s[j]])}

\* GET /pending: channels = await prisma.channel.findMany(...); res.json
ListPending(r) ==
    /\ Takes(r)
    /\ nAuth' = nAuth + 1
    /\ \E s \in PendingResults :
          Goto(r, "done", AuthAnswered([NoLoc EXCEPT !.op = "pending", !.listed = s],
                                       "ok", 200, ""))
    /\ UNCHANGED <<store, admins, budget, history, everMet,
                   sessions, now, nTokens, updatedAt, lastChanged>>
    /\ UNCHANGED ext

(***************************************************************************)
(* Intake: reportSchema.parse and voteSchema.parse (zod), and the read of   *)
(* a visitor's own vote.  A text field of a request body is represented by  *)
(* its length, a missing field by Absent, a number by its value in tenths.  *)
(***************************************************************************)
YoutubeIdMax == 100
ChannelNameMax == 200
ReasonMax == 500
VisitorIdMax == 100

Absent == 0 - 1

NoEvidence == "(absent)"
Evidences == {NoEvidence, "https://example.com/v", "not a url"}

\* z.string().url()
IsUrl(e) == e = "https://example.com/v"

\* request bodies: a plain one, and the plain one with one field at or around a limit
PlainReport ==
    [youtubeId |-> 1, channelName |-> 1, reason |-> Absent, evidence |-> NoEvidence,
     visitorId |-> Absent]

ReportBodies ==
    {[PlainReport EXCEPT !.youtubeId = n] :
        n \in {Absent, 0, 1, YoutubeIdMax, YoutubeIdMax + 1}}
    \cup {[PlainReport EXCEPT !.channelName = n] :
        n \in {Absent, 0, 1, ChannelNameMax, ChannelNameMax + 1}}
    \cup {[PlainReport EXCEPT !.reason = n] : n \in {Absent, 0, ReasonMax, ReasonMax + 1}}
    \cup {[PlainReport EXCEPT !.evidence = e] : e \in Evidences}
    \cup {[PlainReport EXCEPT !.visitorId = n] :
        n \in {Absent, 0, 1, VisitorIdMax, VisitorIdMax + 1}}

PlainVote == [channelId |-> 1, visitorId |-> 1, value |-> 10]

VoteNumbers == {0 - 20, 0 - 10, 0 - 5, 0, 5, 10, 20}

VoteBodies ==
    {[PlainVote EXCEPT !.channelId = n] : n \in {Absent, 0, 1}}
    \cup {[PlainVote EXCEPT !.visitorId = n] :
        n \in {Absent, 0, 1, VisitorIdMax, VisitorIdMax + 1}}
    \cup {[PlainVote EXCEPT !.value = x] : x \in VoteNumbers}

\* z.string().min(lo).max(hi); .optional() lets a missing field through
StringBetween(len, lo, hi) == len # Absent /\ lo <= len /\ len <= hi
Optional(len, ok) == len = Absent \/ ok

\* variant: a schema without the url() check on evidence
ValidReport_NoUrlCheck(b) ==
    /\ StringBetween(b.youtubeId, 1, YoutubeIdMax)
    /\ StringBetween(b.channelName, 1, ChannelNameMax)
    /\ Optional(b.reason, StringBetween(b.reason, 0, ReasonMax))
    /\ Optional(b.visitorId, StringBetween(b.visitorId, 1, VisitorIdMax))

\* reportSchema
ValidReport(b) ==
    /\ StringBetween(b.youtubeId, 1, YoutubeIdMax)
    /\ StringBetween(b.channelName, 1, ChannelNameMax)
    /\ Optional(b.reason, StringBetween(b.reason, 0, ReasonMax))
    /\ b.evidence = NoEvidence \/ IsUrl(b.evidence)
    /\ Optional(b.visitorId, StringBetween(b.visitorId, 1, VisitorIdMax))

\* variant: a schema without the refine(v => v !== 0)
ValidVoteValue_ZeroPasses(tenths) ==
    /\ tenths % 10 = 0
    /\ tenths \div 10 >= 0 - 1 /\ tenths \div 10 <= 1

\* z.number().int().min(-1).max(1).refine(v => v !== 0)
ValidVoteValue(tenths) ==
    /\ tenths % 10 = 0
    /\ tenths \div 10 >= 0 - 1 /\ tenths \div 10 <= 1
    /\ tenths # 0

\* voteSchema
ValidVote(b) ==
    /\ b.channelId # Absent /\ b.channelId >= 1
    /\ StringBetween(b.visitorId, 1, VisitorIdMax)
    /\ ValidVoteValue(b.value)

\* catch (error instanceof z.ZodError): 400 'Invalid request data', no store call made
RejectInvalid(r, op) ==
    /\ Takes(r)
    /\ nOps' = nOps + 1
    /\ Goto(r, "done", [NoLoc EXCEPT !.op = op, !.res = "ValidationError",
                                     !.status = 400, !.error = "Invalid request data"])
    /\ UNCHANGED <<store, admins, nAdmin, nSetups, history, everMet>>
    /\ UNCHANGED auth

\* POST /api/report with body b; y and v are the ids a valid body carries
SubmitReport(r, b, y, v) ==
    IF ValidReport(b) THEN ReportFindChannel(r, y, v) ELSE RejectInvalid(r, "report")

\* POST /api/vote with body b; c and v are the ids a valid body carries
CastVote(r, b, c, v) ==
    IF ValidVote(b) THEN VoteFindChannel(r, c, v, b.value \div 10)
    ELSE RejectInvalid(r, "vote")

\* variant: the vote of any visitor on the channel
GetVoteAnswer_AnyVisitor(c, v) ==
    LET rows == RowsOf(votes, c)
    IN IF rows = {} THEN [voted |-> FALSE, value |-> 0]
       ELSE [voted |-> TRUE, value |-> (CHOOSE row \in rows : TRUE).value]

\* vote = findUnique({ channelId_visitorId }); { voted: !!vote, value: vote?.value || 0 }
GetVoteAnswer(c, v) ==
    LET rows == VoteRowsOf(c, v)
    IN IF rows = {} THEN [voted |-> FALSE, value |-> 0]
       ELSE [voted |-> TRUE, value |-> (CHOOSE row \in rows : TRUE).value]

\* GET /api/vote/:channelId/:visitorId
GetVote(r, c, v) ==
    /\ Takes(r)
    /\ nOps' = nOps + 1
    /\ Goto(r, "done", [NoLoc EXCEPT !.op = "getVote", !.channelId = c, !.visitorId = v,
                                     !.voted = GetVoteAnswer(c, v).voted,
                                     !.value = GetVoteAnswer(c, v).value,
                                     !.res = "ok"])
    /\ UNCHANGED <<store, admins, nAdmin, nSetups, history, everMet>>
    /\ UNCHANGED auth

(***************************************************************************)
(* Extension background worker (background service worker).  Each await of *)
(* chrome.storage.local or fetch is a point where another message handler   *)
(* can run; a storage call takes effect when it is issued.                  *)
(***************************************************************************)
backend == <<channels, nextId, reports, votes, admins, pc, loc, nOps, nAdmin, nSetups,
             okReports, adminBanned, unbanApplied, everMet,
             sessions, nTokens, updatedAt, nAuth, lastChanged>>

\* channels a user blocks: two ids, each seen under two names
BlockIds == {"abc", "xyz"}
BlockNames == {"n1", "n2"}
BlockedChannels == [youtubeId : BlockIds, name : BlockNames]

WFree(m) == wpc[m] \in {"idle", "done"}
WTakes(m) == WFree(m) /\ \A q \in Msg : q < m => ~WFree(q)
WorkerIdle == \A m \in Msg : WFree(m)

WGoto(m, label, newloc) ==
    /\ wpc' = [wpc EXCEPT ![m] = label]
    /\ wloc' = [wloc EXCEPT ![m] = newloc]

\* variant: a test that compares whole entries
AlreadyListed_SameEntry(list, channel) ==
    \E i \in 1..Len(list) : list[i] = channel

\* personalBlocklist.some((c) => c.youtubeId === channel.youtubeId)
AlreadyListed(list, channel) ==
    \E i \in 1..Len(list) : list[i].youtubeId = channel.youtubeId

\* personalBlocklist.filter((c) => c.youtubeId !== channelId)
RECURSIVE Filtered(_, _)
Filtered(list, channelId) ==
    IF list = << >> THEN << >>
    ELSE IF Head(list).youtubeId # channelId
         THEN <<Head(list)>> \o Filtered(Tail(list), channelId)
         ELSE Filtered(Tail(list), channelId)

\* ADD_TO_BLOCKLIST: addToBlocklist, result = await storage.get('personalBlocklist')
AddRead(m, channel) ==
    /\ WTakes(m)
    /\ nMsgs' = nMsgs + 1
    /\ WGoto(m, "add_write", [type |-> "ADD_TO_BLOCKLIST", channel |-> channel,
                            list |-> storage.personalBlocklist])
    /\ UNCHANGED <<storage, sumBlocked, now>>
    /\ UNCHANGED backend

\* if (!some(...)) { push(channel); await storage.set({ personalBlocklist }) }; respond
AddWrite(m) ==
    /\ wpc[m] = "add_write"
    /\ storage' = IF AlreadyListed(wloc[m].list, wloc[m].channel) THEN storage
                  ELSE [storage EXCEPT !.personalBlocklist =
                                          Append(wloc[m].list, wloc[m].channel)]
    /\ WGoto(m, "done", [type |-> wloc[m].type, channel |-> wloc[m].channel,
                         result |-> "success"])
    /\ UNCHANGED <<nMsgs, sumBlocked, now>>
    /\ UNCHANGED backend

\* REMOVE_FROM_BLOCKLIST: removeFromBlocklist, result = await storage.get(...)
RemoveRead(m, channelId) ==
    /\ WTakes(m)
    /\ nMsgs' = nMsgs + 1
    /\ WGoto(m, "remove_write", [type |-> "REMOVE_FROM_BLOCKLIST", channelId |-> channelId,
                               list |-> storage.personalBlocklist])
    /\ UNCHANGED <<storage, sumBlocked, now>>
    /\ UNCHANGED backend

\* filtered = filter(...); await storage.set({ personalBlocklist: filtered }); respond
RemoveWrite(m) ==
    /\ wpc[m] = "remove_write"
    /\ storage' = [storage EXCEPT !.personalBlocklist =
                                     Filtered(wloc[m].list, wloc[m].channelId)]
    /\ WGoto(m, "done", [type |-> wloc[m].type, channelId |-> wloc[m].channelId,
                         result |-> "success"])
    /\ UNCHANGED <<nMsgs, sumBlocked, now>>
    /\ UNCHANGED backend

\* stats.blockedToday += blocked; stats.blockedTotal += blocked; lastBlockedChannel = name
StatsAfter(read, blocked, channelName) ==
    [blockedToday |-> read.blockedToday + blocked,
     blockedTotal |-> read.blockedTotal + blocked,
     lastBlockedChannel |-> channelName]

\* UPDATE_STATS: updateStats, result = await storage.get('stats')
UpdateStatsRead(m, blocked, channelName) ==
    /\ WTakes(m)
    /\ nMsgs' = nMsgs + 1
    /\ sumBlocked' = sumBlocked + blocked
    /\ WGoto(m, "stats_write", [type |-> "UPDATE_STATS", blocked |-> blocked,
                              channelName |-> channelName, stats |-> storage.stats])
    /\ UNCHANGED <<storage, now>>
    /\ UNCHANGED backend

\* the increments on the object read; await storage.set({ stats }); badge; respond
UpdateStatsWrite(m) ==
    /\ wpc[m] = "stats_write"
    /\ storage' = [storage EXCEPT !.stats = StatsAfter(wloc[m].stats, wloc[m].blocked,
                                                       wloc[m].channelName)]
    /\ WGoto(m, "done", [type |-> wloc[m].type, blocked |-> wloc[m].blocked,
                         result |-> "success"])
    /\ UNCHANGED <<nMsgs, sumBlocked, now>>
    /\ UNCHANGED backend

\* what fetch and response.json() can give: a network error, a non-OK response, or
\* a body with or without a channels field
FetchOutcomes == {"ok", "network error", "not ok"}
NoChannelsField == <<"no channels field">>
CommunityLists == {<< >>, <<"abc">>, <<"abc", "xyz">>}
FetchBodies == CommunityLists \cup {NoChannelsField}

\* variant: a response that is not OK taken as a success
FetchFailed_StatusIgnored(outcome) == outcome = "network error"

\* fetch rejects, or if (!response.ok) throw new Error('Failed to fetch')
FetchFailed(outcome) == outcome # "ok"

\* data.channels || []
ChannelsOf(data) == IF data = NoChannelsField THEN << >> ELSE data

\* SYNC_COMMUNITY_LIST / onStartup: fetchCommunityBlocklist, await fetch(...)
FetchStart(m) ==
    /\ WTakes(m)
    /\ nMsgs' = nMsgs + 1
    /\ WGoto(m, "fetch_wait", [type |-> "SYNC_COMMUNITY_LIST"])
    /\ UNCHANGED <<storage, sumBlocked, now>>
    /\ UNCHANGED backend

\* the fetch settles: on success the body is read and storage.get('settings') issued;
\* on failure the catch block reads the cached list and returns it
FetchSettled(m, outcome, data) ==
    /\ wpc[m] = "fetch_wait"
    /\ IF FetchFailed(outcome)
       THEN WGoto(m, "done", [type |-> wloc[m].type, outcome |-> outcome,
                             result |-> storage.communityBlocklist])
       ELSE WGoto(m, "fetch_store", [type |-> wloc[m].type, outcome |-> outcome,
                                    data |-> ChannelsOf(data),
                                    settings |-> storage.settings])
    /\ UNCHANGED <<storage, nMsgs, sumBlocked, now>>
    /\ UNCHANGED backend

\* await storage.set({ communityBlocklist, settings: { ...settings, lastSyncAt } })
FetchStore(m) ==
    /\ wpc[m] = "fetch_store"
    /\ storage' = [storage EXCEPT !.communityBlocklist = wloc[m].data,
                                  !.settings = [wloc[m].settings EXCEPT !.lastSyncAt = now]]
    /\ WGoto(m, "done", [type |-> wloc[m].type, outcome |-> wloc[m].outcome,
                         result |-> wloc[m].data])
    /\ UNCHANGED <<nMsgs, sumBlocked, now>>
    /\ UNCHANGED backend

(***************************************************************************)
(* Specifications.                                                         *)
(***************************************************************************)
\* no request is in progress
Idle == \A r \in Req : Free(r)

\* public traffic: report and vote requests interleave at every store statement
Next ==
    \/ \E r \in Req, y \in ExternalIds, v \in Reporters :
          nOps < MaxOps /\ ReportFindChannel(r, y, v)
    \/ \E r \in Req : ReportUpsert(r)
    \/ \E r \in Req : ReportInsert(r)
    \/ \E r \in Req : ReportRefresh(r)
    \/ \E r \in Req, c \in 1..nextId, v \in RaceVisitors, value \in Values :
          nOps < MaxOps /\ VoteFindChannel(r, c, v, value)
    \/ \E r \in Req : VoteFindExisting(r)
    \/ \E r \in Req : VoteWrite(r)
    \/ \E r \in Req : VoteUpdateScore(r)
    \/ \E r \in Req : CheckAutoBanRead(r)
    \/ \E r \in Req : CheckAutoBanWrite(r)

Spec == Init /\ [][Next]_vars

\* the same handlers and the admin's channel calls, one request at a time
\* (each runs to its response alone)
NextSeq ==
    \/ \E r \in Req, y \in ExternalIds, v \in Reporters :
          Idle /\ nOps < MaxSeqOps /\ ReportFindChannel(r, y, v)
    \/ \E r \in Req : ReportUpsert(r)
    \/ \E r \in Req : ReportInsert(r)
    \/ \E r \in Req : ReportRefresh(r)
    \/ \E r \in Req, c \in 1..nextId, v \in Visitors, value \in Values :
          Idle /\ nOps < MaxSeqOps /\ VoteFindChannel(r, c, v, value)
    \/ \E r \in Req : VoteFindExisting(r)
    \/ \E r \in Req : VoteWrite(r)
    \/ \E r \in Req : VoteUpdateScore(r)
    \/ \E r \in Req : CheckAutoBanRead(r)
    \/ \E r \in Req : CheckAutoBanWrite(r)
    \/ \E c \in ChanIds : Idle /\ nAdmin < MaxAdminOps /\ AdminBan(c)
    \/ \E c \in ChanIds : Idle /\ nAdmin < MaxAdminOps /\ AdminUnban(c)
    \/ \E c \in ChanIds : Idle /\ nAdmin < MaxAdminOps /\ AdminDelete(c)

SpecSeq == Init /\ [][NextSeq]_vars

\* public traffic with one admin call on a channel somewhere in between
NextAdminRace ==
    \/ Next
    \/ \E c \in ChanIds : nAdmin = 0 /\ AdminBan(c)
    \/ \E c \in ChanIds : nAdmin = 0 /\ AdminUnban(c)
    \/ \E c \in ChanIds : nAdmin = 0 /\ AdminDelete(c)

SpecAdminRace == Init /\ [][NextAdminRace]_vars

\* first-run bootstrap requests racing each other
NextSetup ==
    \/ \E r \in Req, u \in Usernames, p \in Passwords : SetupStart(r, u, p)
    \/ \E r \in Req : SetupCount(r)
    \/ \E r \in Req : SetupCreate(r)
    \/ \E r \in Req : SetupCommit(r)

SpecSetup == Init /\ [][NextSetup]_vars

\* the system after its bootstrap (admin alice) and a first report of "abc"
InitAuth ==
    /\ channels = (1 :> NewChannel("abc"))
    /\ nextId = 2
    /\ reports = SetToBag({[channelId |-> 1, userId |-> "v1"]})
    /\ votes = EmptyBag
    /\ admins = {[username |-> "alice", password |-> HashPassword("pw1")]}
    /\ pc = [r \in Req |-> "idle"]
    /\ loc = [r \in Req |-> NoLoc]
    /\ nOps = 1
    /\ nAdmin = 0
    /\ nSetups = 1
    /\ okReports = [y \in ExternalIds |-> 1]
    /\ adminBanned = {}
    /\ unbanApplied = {}
    /\ everMet = {}
    /\ sessions = {}
    /\ now = 0
    /\ nTokens = 0
    /\ updatedAt = [c \in ChanIds |-> 0]
    /\ nAuth = 0
    /\ lastChanged = [u \in Usernames |-> ""]
    /\ ExtensionInstalled

\* tokens a caller can present: none, a made-up one, or one a login returned
Presentable == {NoToken, ForgedToken} \cup IssuedTokens

\* the admin area and the ban list, requests interleaving, the clock advancing
NextAuth ==
    \/ Tick
    \/ \E r \in Req, u \in Usernames, p \in Passwords :
          nAuth < MaxAuthOps /\ LoginFind(r, u, p)
    \/ \E r \in Req : LoginCheck(r)
    \/ \E r \in Req : LoginSweep(r)
    \/ \E r \in Req, t \in Presentable : nAuth < MaxAuthOps /\ Logout(r, t)
    \/ \E r \in Req, t \in Presentable :
          nAuth < MaxAuthOps /\ AuthFind(r, "verify", t, 0, "", "")
    \/ \E r \in Req, op \in ChannelOps, t \in Presentable, c \in AuthChannelIds :
          nAuth < MaxAuthOps /\ AuthFind(r, op, t, c, "", "")
    \/ \E r \in Req, t \in Presentable, cur \in Passwords, new \in Passwords :
          nAuth < MaxAuthOps /\ AuthFind(r, "changePassword", t, 0, cur, new)
    \/ \E r \in Req : AuthCheck(r)
    \/ \E r \in Req : CpUpdate(r)
    \/ \E r \in Req : CpSessions(r)
    \/ \E r \in Req : nAuth < MaxAuthOps /\ ListBanned(r)
    \/ \E r \in Req : nAuth < MaxAuthOps /\ ListVersion(r)

SpecAuth == InitAuth /\ [][NextAuth]_vars

\* counters a channel row can hold: one or two reports, and at most one vote
ListedReportCounts == {1, 2}
ListedVoteTotals == {-1, 0, 1}

\* stores of up to MaxListed channels, each reported once or twice, voted on by at
\* most one visitor, and banned or not (by an admin)
InitPending ==
    /\ \E n \in 0..MaxListed :
          \E rc \in [1..n -> ListedReportCounts], vt \in [1..n -> ListedVoteTotals],
             ban \in [1..n -> BOOLEAN] :
             /\ channels = [c \in 1..n |-> [youtubeId |-> ToString(c),
                                             name |-> ChannelName(ToString(c)),
                                             reportCount |-> rc[c],
                                             score |-> rc[c] + vt[c],
                                             isBanned |-> ban[c]]]
             /\ nextId = n + 1
             /\ reports = [row \in {[channelId |-> c, userId |-> "v1"] : c \in 1..n}
                            |-> rc[row.channelId]]
             /\ votes = SetToBag({[channelId |-> c, visitorId |-> "v1", value |-> vt[c]] :
                                   c \in {d \in 1..n : vt[d] # 0}})
             /\ adminBanned = {c \in 1..n : ban[c]}
    /\ admins = {[username |-> "alice", password |-> HashPassword("pw1")]}
    /\ pc = [r \in Req |-> "idle"]
    /\ loc = [r \in Req |-> NoLoc]
    /\ nOps = 0
    /\ nAdmin = 0
    /\ nSetups = 0
    /\ okReports = [y \in ExternalIds |-> 0]
    /\ unbanApplied = {}
    /\ everMet = {}
    /\ sessions = {}
    /\ now = 0
    /\ nTokens = 0
    /\ updatedAt = [c \in ChanIds |-> 0]
    /\ nAuth = 0
    /\ lastChanged = [u \in Usernames |-> ""]
    /\ ExtensionInstalled

\* listPending calls on such a store
NextPending ==
    \E r \in Req : nAuth < MaxAuthOps /\ ListPending(r)

SpecPending == InitPending /\ [][NextPending]_vars

(***************************************************************************)
(* Properties.                                                             *)
(***************************************************************************)
VoteReq(r) == pc[r] = "done" /\ loc[r].op = "vote"

\* C1: once no request is in progress, every channel's score equals its
\* reportCount plus the sum of the values of the Vote rows that exist for it.
C1_ScoreIsReportsPlusVotes ==
    Idle => \A c \in DOMAIN channels :
                channels[c].score = channels[c].reportCount + VoteTotal(c)

\* C2: bootstrap requests that all arrived while no Admin row existed end with
\* exactly one Admin row, one success, and AdminAlreadyExists for all the others.
C2_ExactlyOneBootstrapWins ==
    (\A r \in Req : pc[r] = "done" /\ loc[r].op = "setup" /\ loc[r].startedEmpty)
    => /\ Cardinality(admins) = 1
       /\ Cardinality({r \in Req : loc[r].res = "ok"}) = 1
       /\ \A r \in Req : loc[r].res \in {"ok", "AdminAlreadyExists"}

\* C3: in every reachable state, a channel's reportCount equals the number of
\* Report rows that reference it.
C3_ReportCountIsReportRows ==
    \A c \in DOMAIN channels : channels[c].reportCount = ReportRows(c)

\* C4: after N >= 1 successful submitReport calls for one externalId, run one
\* after another with no vote and no admin call, exactly one Channel row exists
\* for it, with reportCount = N and score = N and N Report rows (every report is
\* counted, also with a repeated reporterToken); after the first it is not banned.
C4_SequentialReportsCounted ==
    \A y \in ExternalIds :
        LET n == okReports[y]
            rows == {c \in DOMAIN channels : channels[c].youtubeId = y}
        IN (n >= 1 /\ nOps = n /\ nAdmin = 0)
           => /\ Cardinality(rows) = 1
              /\ \A c \in rows : /\ channels[c].reportCount = n
                                 /\ channels[c].score = n
                                 /\ ReportRows(c) = n
                                 /\ (n = 1 => ~channels[c].isBanned)

C4_Witness ==
    \E y \in ExternalIds : \E c \in DOMAIN channels :
        /\ okReports[y] = 3 /\ nOps = 3 /\ nAdmin = 0
        /\ channels[c].youtubeId = y
        /\ \E row \in BagToSet(reports) : row.channelId = c /\ CopiesIn(row, reports) = 3

\* C5: when a visitor holding a vote of value v casts -v, the step that writes the
\* vote updates the one existing row in place to -v (the Vote table keeps its size)
\* and the step that applies the delta moves the channel's score by exactly 2 * (-v).
C5_VoteChangeInPlaceDeltaTwice ==
    [][\A r \in Req :
          LET c == loc[r].channelId
              v == loc[r].visitorId
          IN /\ (pc[r] = "vote_write" /\ pc'[r] = "vote_score" /\ loc[r].existing # 0)
                => /\ loc[r].existing = 0 - loc[r].value
                   /\ BagCardinality(votes') = BagCardinality(votes)
                   /\ {row \in BagToSet(votes') : row.channelId = c /\ row.visitorId = v}
                      = {[channelId |-> c, visitorId |-> v, value |-> loc[r].value]}
                   /\ CopiesIn([channelId |-> c, visitorId |-> v,
                                value |-> loc[r].value], votes') = 1
             /\ (pc[r] = "vote_score" /\ pc'[r] = "chk_read" /\ loc[r].existing # 0)
                => channels'[c].score = channels[c].score + 2 * loc[r].value
      ]_vars

C5_Witness ==
    \E r \in Req :
        /\ VoteReq(r) /\ loc[r].res = "ok" /\ ~loc[r].first
        /\ VoteRowsOf(loc[r].channelId, loc[r].visitorId)
           = {[channelId |-> loc[r].channelId, visitorId |-> loc[r].visitorId,
               value |-> loc[r].value]}

\* C6: a vote whose value equals the value of the visitor's existing Vote row is
\* answered DuplicateVote in the step that finds the row, and that step changes
\* no Channel, Report or Vote row.
C6_DuplicateVoteChangesNothing ==
    [][\A r \in Req :
          (/\ pc[r] = "vote_find" /\ pc'[r] # "vote_find"
           /\ \E row \in VoteRowsOf(loc[r].channelId, loc[r].visitorId) :
                 row.value = loc[r].value)
          => /\ pc'[r] = "done"
             /\ loc'[r].res = "DuplicateVote"
             /\ UNCHANGED <<channels, nextId, reports, votes>>
      ]_vars

C6_Witness ==
    \E r \in Req : VoteReq(r) /\ loc[r].res = "DuplicateVote"

\* two answered first-vote requests of one visitor on one channel: both arrived
\* while the visitor had no Vote row there, so they ran concurrently
FirstVoteRace(r1, r2) ==
    /\ r1 # r2 /\ VoteReq(r1) /\ VoteReq(r2)
    /\ loc[r1].first /\ loc[r2].first
    /\ loc[r1].channelId = loc[r2].channelId
    /\ loc[r1].visitorId = loc[r2].visitorId
    /\ loc[r1].res # "NotFound" /\ loc[r2].res # "NotFound"
    /\ ChannelExists(loc[r1].channelId)

OneVoteRowPerPair ==
    \A c \in ChanIds, v \in Visitors : VoteRowCount(c, v) <= 1

OnlyVoterOn(c, v) == \A row \in RowsOf(votes, c) : row.visitorId = v

\* C7 as claimed: at most one Vote row per (channel, visitor); two concurrent
\* first votes of one visitor on one channel leave one row, exactly one of them
\* succeeds, and the score moves by exactly one vote's value.
C7_FirstVoteRaceOneWinner ==
    /\ OneVoteRowPerPair
    /\ \A r1, r2 \in Req :
          FirstVoteRace(r1, r2)
          => LET c == loc[r1].channelId
                 v == loc[r1].visitorId
             IN /\ VoteRowCount(c, v) = 1
                /\ Cardinality({r \in {r1, r2} : loc[r].res = "ok"}) = 1
                /\ OnlyVoterOn(c, v)
                   => channels[c].score = channels[c].reportCount + VoteTotal(c)

\* C7 amended: at most one Vote row per (channel, visitor); two concurrent first
\* votes of one visitor on one channel leave one row and at least one succeeds;
\* with equal values exactly one succeeds and the other is rejected; with opposite
\* values the later one may instead be applied as a vote change; in all cases the
\* score counts the visitor's one row exactly once.
C7_FirstVoteRaceOneRow ==
    /\ OneVoteRowPerPair
    /\ \A r1, r2 \in Req :
          FirstVoteRace(r1, r2)
          => LET c == loc[r1].channelId
                 v == loc[r1].visitorId
                 won == {r \in {r1, r2} : loc[r].res = "ok"}
             IN /\ VoteRowCount(c, v) = 1
                /\ Cardinality(won) >= 1
                /\ loc[r1].value = loc[r2].value
                   => /\ Cardinality(won) = 1
                      /\ \A r \in {r1, r2} \ won :
                            loc[r].res \in {"DuplicateVote", "InternalError"}
                /\ OnlyVoterOn(c, v)
                   => channels[c].score = channels[c].reportCount + VoteTotal(c)

C7_Witness ==
    \E r1, r2 \in Req :
        /\ FirstVoteRace(r1, r2)
        /\ loc[r1].value = loc[r2].value
        /\ loc[r1].res = "ok" /\ loc[r2].res = "InternalError"
        /\ OnlyVoterOn(loc[r1].channelId, loc[r1].visitorId)

\* C8: whenever no request is in progress, a channel no admin unban was applied
\* to and whose counters satisfy reportCount >= 5 and score >= 3 is banned.
C8_ThresholdMetMeansBanned ==
    Idle => \A c \in DOMAIN channels \ unbanApplied :
                CountersSatisfyBoth(channels[c]) => channels[c].isBanned

C8_Witness ==
    /\ Idle
    /\ \E c \in DOMAIN channels \ (unbanApplied \cup adminBanned) :
          /\ CountersSatisfyBoth(channels[c]) /\ channels[c].isBanned
          /\ VoteTotal(c) < 0

\* C9: checkAutoBan writes isBanned = true only after reading a row with
\* reportCount >= 5 and score >= 3, and a channel that no admin banned and whose
\* counters never satisfied both thresholds is not banned.
C9_AutoBanOnlyAtThreshold ==
    /\ \A r \in Req : pc[r] = "chk_write"
                      => loc[r].chkReports >= 5 /\ loc[r].chkScore >= 3
    /\ \A c \in DOMAIN channels :
          (c \notin adminBanned /\ c \notin everMet) => ~channels[c].isBanned

C9_Witness ==
    \E r \in Req : \E c \in DOMAIN channels \ adminBanned :
        /\ pc[r] = "chk_write" /\ loc[r].channelId = c /\ loc[r].op = "vote"
        /\ ~channels[c].isBanned

\* a channel with exactly 5 reports and 3 negative votes of distinct visitors,
\* reportCount = 5 and score = 2, that no admin call touched
FiveReportsThreeDownvotes(c) ==
    /\ ChannelExists(c)
    /\ channels[c].reportCount = 5 /\ channels[c].score = 2
    /\ ReportRows(c) = 5
    /\ Cardinality(RowsOf(votes, c)) = 3
    /\ \A row \in RowsOf(votes, c) : row.value = -1 /\ CopiesIn(row, votes) = 1
    /\ c \notin adminBanned /\ c \notin unbanApplied

\* C10 as claimed: such a channel is not banned, whatever the order of processing.
C10_FiveReportsThreeDownvotesNotBanned ==
    \A c \in ChanIds : (Idle /\ FiveReportsThreeDownvotes(c)) => ~channels[c].isBanned

\* C10 amended: such a channel is banned exactly when its counters satisfied
\* reportCount >= 5 and score >= 3 at some moment, that is when the fifth report
\* was processed before all three negative votes; it is not banned only when the
\* three negative votes all came before the fifth report.
C10_BannedIffThresholdOnceMet ==
    \A c \in ChanIds :
        (Idle /\ FiveReportsThreeDownvotes(c))
        => (channels[c].isBanned <=> c \in everMet)

C10_Witness ==
    \E c \in ChanIds :
        Idle /\ FiveReportsThreeDownvotes(c) /\ ~channels[c].isBanned /\ c \notin everMet

\* C11: no step of submitReport, castVote or checkAutoBan (any step that is not an
\* admin call) removes a banned channel or turns its isBanned from true to false,
\* whatever its score has become.
C11_BanIsMonotonicWithoutAdmin ==
    [][nAdmin' = nAdmin
       => \A c \in DOMAIN channels :
              channels[c].isBanned => (c \in DOMAIN channels' /\ channels'[c].isBanned)
      ]_vars

\* auto-banned, then voted down below the score threshold
C11_Witness ==
    \E c \in DOMAIN channels \ adminBanned :
        /\ Idle /\ nAdmin = 0
        /\ channels[c].isBanned
        /\ channels[c].score < BAN_THRESHOLD_SCORE
        /\ VoteTotal(c) < 0

\* C15: a castVote naming a channelId with no Channel row is answered NotFound at
\* once and changes no Channel, Report or Vote row; a Channel row comes into
\* existence only in the create step of a submitReport.
C15_VoteOnUnknownChannelNotFound ==
    [][/\ \A r \in Req :
             (nOps' = nOps + 1 /\ loc'[r] # loc[r] /\ loc'[r].op = "vote"
              /\ loc'[r].channelId \notin DOMAIN channels)
             => /\ pc'[r] = "done"
                /\ loc'[r].res = "NotFound"
                /\ UNCHANGED <<channels, nextId, reports, votes>>
       /\ \A c \in DOMAIN channels' \ DOMAIN channels :
             \E r \in Req : /\ pc[r] = "rep_upsert" /\ loc[r].op = "report"
                            /\ pc'[r] = "rep_insert" /\ loc'[r].channelId = c
      ]_vars

C15_Witness ==
    \E r \in Req :
        /\ VoteReq(r) /\ loc[r].res = "NotFound"
        /\ ~ChannelExists(loc[r].channelId)
        /\ BagToSet(votes) # {}

\* C18: the step that deletes a channel leaves no Channel, Report or Vote row of
\* it (no Report or Vote row ever references a missing channel), and a channel
\* created afterwards for the same externalId is a fresh row under a new id with
\* reportCount = 1, score = 1, isBanned = false and no Report or Vote row yet.
C18_DeleteLeavesNothingBehind ==
    [][/\ \A row \in BagToSet(reports') \cup BagToSet(votes') :
             row.channelId \in DOMAIN channels'
       /\ \A c \in DOMAIN channels \ DOMAIN channels' :
             /\ RowsOf(reports', c) = {} /\ RowsOf(votes', c) = {}
             /\ \A d \in DOMAIN channels' : channels'[d].youtubeId # channels[c].youtubeId
       /\ \A c \in DOMAIN channels' \ DOMAIN channels :
             /\ c >= nextId
             /\ channels'[c].reportCount = 1 /\ channels'[c].score = 1
             /\ ~channels'[c].isBanned
             /\ RowsOf(reports', c) = {} /\ RowsOf(votes', c) = {}
      ]_vars

\* a channel reported twice was deleted, and its externalId was reported again
C18_Witness ==
    \E y \in ExternalIds :
        /\ Idle /\ nAdmin = 1 /\ okReports[y] = 3
        /\ DOMAIN channels = {2}
        /\ channels[2] = NewChannel(y)
        /\ ReportRows(2) = 1

ProtectedOps == {"verify", "ban", "unban", "delete", "changePassword"}

\* request r leaves requireAdmin's test in this step
AuthStep(r) == pc[r] = "auth_check" /\ pc'[r] # "auth_check"

\* request r is turned away with Unauthenticated in this step
TurnedAway(r) ==
    /\ pc'[r] = "done"
    /\ loc'[r].res = "Unauthenticated" /\ loc'[r].status = 401

LedgerUnchanged == UNCHANGED <<channels, nextId, reports, votes>>

\* C12: a protected call whose session row has expiresAt earlier than the clock
\* when requireAdmin tests it is answered Unauthenticated, the session row of its
\* token is gone after that step, and nothing the route handler would write
\* (channels, reports, votes, admins, other sessions) has changed.
C12_ExpiredSessionRejectedAndRemoved ==
    [][\A r \in Req :
          (AuthStep(r) /\ loc[r].sessFound /\ loc[r].sessExp < now)
          => /\ TurnedAway(r)
             /\ {s \in sessions' : s.token = loc[r].token} = {}
             /\ sessions' = sessions \ SessionByToken(loc[r].token)
             /\ LedgerUnchanged
             /\ UNCHANGED <<admins, updatedAt>>
      ]_vars

\* an expired session was presented to verify and to a ban: both were turned away,
\* the row is gone and the channel is as it was
C12_Witness ==
    /\ \A r \in Req : /\ pc[r] = "done" /\ loc[r].sessFound
                      /\ loc[r].res = "Unauthenticated"
                      /\ loc[r].token = TokenPool[1]
    /\ \E r \in Req : loc[r].op = "verify"
    /\ \E r \in Req : loc[r].op = "ban" /\ loc[r].channelId = 1
    /\ SessionByToken(TokenPool[1]) = {}
    /\ now > SESSION_TTL
    /\ ~channels[1].isBanned

\* C13: the step in which changePassword succeeds leaves no Session row of that
\* admin, the caller's own included; no token comes back once its row is gone; a
\* protected call that finds no row for its token is turned away; and a login that
\* starts after a password was stored succeeds exactly with that password.
C13_PasswordChangeInvalidatesSessions ==
    [][\A r \in Req :
          /\ (pc[r] = "cp_sessions" /\ pc'[r] = "done")
             => /\ loc'[r].res = "ok"
                /\ \A s \in sessions' : /\ s.username # loc[r].username
                                        /\ s.token # loc[r].token
          /\ \A s \in sessions' \ sessions : s.token \notin IssuedTokens
          /\ (nAuth' = nAuth + 1 /\ loc'[r] # loc[r] /\ loc'[r].op \in ProtectedOps
              /\ SessionByToken(loc'[r].token) = {})
             => ~loc'[r].sessFound
          /\ (AuthStep(r) /\ ~loc[r].sessFound)
             => TurnedAway(r) /\ LedgerUnchanged /\ UNCHANGED <<admins, sessions>>
          /\ (pc[r] = "login_check" /\ pc'[r] # "login_check" /\ loc[r].changedTo # "")
             => (pc'[r] = "login_sweep" <=> loc[r].password = loc[r].changedTo)
      ]_vars

\* after a password change made with the first token, that token has no row and a
\* login with the new password has just been accepted
C13_Witness ==
    \E r \in Req :
        /\ pc[r] = "login_sweep"
        /\ loc[r].changedTo = "pw2" /\ loc[r].password = "pw2"
        /\ loc[r].token = TokenPool[2]
        /\ SessionByToken(TokenPool[1]) = {}
        /\ \E q \in Req : /\ pc[q] = "done" /\ loc[q].op = "changePassword"
                           /\ loc[q].res = "ok" /\ loc[q].token = TokenPool[1]

\* a login answered after the username was not found / after the password test failed
UnknownUserLogin(r) ==
    pc[r] = "done" /\ loc[r].op = "login" /\ ~loc[r].adminFound

WrongPasswordLogin(r) ==
    pc[r] = "done" /\ loc[r].op = "login" /\ loc[r].adminFound /\ loc[r].res # "ok"

\* C14: a login with an unknown username and a login with a known username and a
\* wrong password get the same answer (kind InvalidCredentials, same status, same
\* body), and the step that rejects a login changes no Session row.
C14_LoginFailuresIndistinguishable ==
    [][/\ \A r \in Req :
             (pc[r] = "login_check" /\ pc'[r] = "done")
             => /\ loc'[r].res = "InvalidCredentials"
                /\ sessions' = sessions
       /\ \A r1, r2 \in Req :
             (UnknownUserLogin(r1) /\ WrongPasswordLogin(r2))'
             => /\ loc'[r1].res = loc'[r2].res
                /\ loc'[r1].status = loc'[r2].status
                /\ loc'[r1].error = loc'[r2].error
      ]_vars

C14_Witness ==
    \E r1, r2 \in Req :
        /\ UnknownUserLogin(r1) /\ WrongPasswordLogin(r2)
        /\ loc[r1].res = "InvalidCredentials"
        /\ sessions # {}

\* C16: a ban, unban or delete call without a token, with a token that has no
\* Session row, or with a token whose Session has expired is answered
\* Unauthenticated and changes no Channel, Report or Vote row; a row of these tables
\* changes only in the step of such a call that passed requireAdmin with a
\* Session row that was found and has not expired.
C16_ChannelCallsNeedValidSession ==
    [][/\ \A r \in Req :
             /\ (nAuth' = nAuth + 1 /\ loc'[r] # loc[r]
                 /\ loc'[r].op \in ChannelOps /\ loc'[r].token = NoToken)
                => TurnedAway(r) /\ LedgerUnchanged
             /\ (AuthStep(r) /\ loc[r].op \in ChannelOps
                 /\ (~loc[r].sessFound \/ loc[r].sessExp < now))
                => TurnedAway(r) /\ LedgerUnchanged
       /\ ~LedgerUnchanged
          => \E r \in Req : /\ AuthStep(r) /\ loc[r].op \in ChannelOps
                            /\ loc[r].sessFound /\ ~(loc[r].sessExp < now)
      ]_vars

\* a delete with a made-up token and a ban without a token were turned away while
\* a session existed; the channel and its report are still there
C16_Witness ==
    \E r, q \in Req :
        /\ pc[r] = "done" /\ loc[r].op = "delete" /\ loc[r].token = ForgedToken
        /\ pc[q] = "done" /\ loc[q].op = "ban" /\ loc[q].token = NoToken
        /\ loc[r].channelId = 1 /\ loc[q].channelId = 1
        /\ loc[r].res = "Unauthenticated" /\ loc[q].res = "Unauthenticated"
        /\ sessions # {}
        /\ ChannelExists(1) /\ ~channels[1].isBanned /\ ReportRows(1) = 1

\* C17: a ban, unban or delete call that passed requireAdmin and names a channelId
\* with no Channel row is answered with the NotFound kind and changes no state.
C17_MissingChannelIsNotFound ==
    [][\A r \in Req :
          (AuthStep(r) /\ loc[r].op \in ChannelOps
           /\ loc[r].sessFound /\ ~(loc[r].sessExp < now)
           /\ loc[r].channelId \notin DOMAIN channels)
          => /\ pc'[r] = "done"
             /\ loc'[r].res = "NotFound"
             /\ LedgerUnchanged
             /\ UNCHANGED <<admins, sessions>>
      ]_vars

\* C19: the version a listBanned call returns is the maximum updatedAt among the
\* banned channels (0 when there is none), so it repeats while the store is
\* unchanged.
C19_ListVersionIsMaxUpdatedAt ==
    [][\A r \in Req :
          (nAuth' = nAuth + 1 /\ loc'[r] # loc[r] /\ loc'[r].op = "list")
          => loc'[r].version = BanlistVersion
      ]_vars

\* C20: the list a listPending call returns holds every channel with
\* reportCount >= 1 and isBanned = false once, holds no other channel, and is
\* ordered by score descending and, among equal scores, by reportCount descending.
C20_PendingListExactAndOrdered ==
    \A r \in Req :
        (pc[r] = "done" /\ loc[r].op = "pending")
        => LET s == loc[r].listed
               n == Len(s)
           IN /\ {s[i] : i \in 1..n}
                 = {c \in DOMAIN channels :
                       channels[c].reportCount >= 1 /\ ~channels[c].isBanned}
              /\ \A i, j \in 1..n : i # j => s[i] # s[j]
              /\ \A i, j \in 1..n :
                    i < j => \/ channels[s[i]].score > channels[s[j]].score
                             \/ /\ channels[s[i]].score = channels[s[j]].score
                                /\ channels[s[i]].reportCount
                                   >= channels[s[j]].reportCount

\* two channels of equal score listed by reportCount against the order of their
\* ids, and a banned channel with a higher score left out
C20_Witness ==
    \E r \in Req :
        /\ pc[r] = "done" /\ loc[r].op = "pending"
        /\ Len(loc[r].listed) = 2
        /\ loc[r].listed[1] > loc[r].listed[2]
        /\ channels[loc[r].listed[1]].score = channels[loc[r].listed[2]].score
        /\ channels[loc[r].listed[1]].reportCount > channels[loc[r].listed[2]].reportCount
        /\ \E c \in DOMAIN channels :
              channels[c].isBanned /\ channels[c].score > channels[loc[r].listed[1]].score

\* a channel reported four times, one report short of the automatic ban
InitIntake ==
    /\ channels = <<[youtubeId |-> "abc", name |-> ChannelName("abc"),
                     reportCount |-> BAN_THRESHOLD_REPORTS - 1,
                     score |-> BAN_THRESHOLD_REPORTS - 1, isBanned |-> FALSE]>>
    /\ nextId = 2
    /\ reports = [row \in {[channelId |-> 1, userId |-> "v1"]}
                   |-> BAN_THRESHOLD_REPORTS - 1]
    /\ votes = EmptyBag
    /\ admins = {}
    /\ pc = [r \in Req |-> "idle"]
    /\ loc = [r \in Req |-> NoLoc]
    /\ nOps = 0
    /\ nAdmin = 0
    /\ nSetups = 0
    /\ okReports = [y \in ExternalIds |-> BAN_THRESHOLD_REPORTS - 1]
    /\ adminBanned = {}
    /\ unbanApplied = {}
    /\ everMet = {}
    /\ sessions = {}
    /\ now = 0
    /\ nTokens = 0
    /\ updatedAt = [c \in ChanIds |-> 0]
    /\ nAuth = 0
    /\ lastChanged = [u \in Usernames |-> ""]
    /\ ExtensionInstalled

\* public traffic with request bodies of every shape, and reads of one's own vote
NextIntake ==
    \/ \E r \in Req, b \in ReportBodies, y \in ExternalIds, v \in Reporters :
          nOps < MaxIntakeOps /\ SubmitReport(r, b, y, v)
    \/ \E r \in Req : ReportUpsert(r)
    \/ \E r \in Req : ReportInsert(r)
    \/ \E r \in Req : ReportRefresh(r)
    \/ \E r \in Req, b \in VoteBodies, c \in 1..nextId, v \in RaceVisitors :
          nOps < MaxIntakeOps /\ CastVote(r, b, c, v)
    \/ \E r \in Req : VoteFindExisting(r)
    \/ \E r \in Req : VoteWrite(r)
    \/ \E r \in Req : VoteUpdateScore(r)
    \/ \E r \in Req : CheckAutoBanRead(r)
    \/ \E r \in Req : CheckAutoBanWrite(r)
    \/ \E r \in Req, c \in 1..nextId, v \in RaceVisitors :
          nOps < MaxIntakeOps /\ GetVote(r, c, v)

SpecIntake == InitIntake /\ [][NextIntake]_vars

\* two channels: "abc" after four reports, a negative vote of each visitor and a
\* fifth report (score 2, not banned), and "xyz" after one report
InitVotes ==
    /\ channels = <<[NewChannel("abc") EXCEPT !.reportCount = BAN_THRESHOLD_REPORTS,
                                              !.score = BAN_THRESHOLD_SCORE - 1],
                    NewChannel("xyz")>>
    /\ nextId = 3
    /\ reports = [row \in {[channelId |-> c, userId |-> "v1"] : c \in {1, 2}}
                   |-> IF row.channelId = 1 THEN BAN_THRESHOLD_REPORTS ELSE 1]
    /\ votes = SetToBag({[channelId |-> 1, visitorId |-> v, value |-> 0 - 1] :
                            v \in Visitors})
    /\ admins = {}
    /\ pc = [r \in Req |-> "idle"]
    /\ loc = [r \in Req |-> NoLoc]
    /\ nOps = 0
    /\ nAdmin = 0
    /\ nSetups = 0
    /\ okReports = [y \in ExternalIds |-> BAN_THRESHOLD_REPORTS]
    /\ adminBanned = {}
    /\ unbanApplied = {}
    /\ everMet = {}
    /\ sessions = {}
    /\ now = 0
    /\ nTokens = 0
    /\ updatedAt = [c \in ChanIds |-> 0]
    /\ nAuth = 0
    /\ lastChanged = [u \in Usernames |-> ""]
    /\ ExtensionInstalled

\* votes of the visitors on either channel or on a missing one, interleaving
NextVotes ==
    \/ \E r \in Req, c \in 1..nextId, v \in Visitors, value \in Values :
          nOps < MaxVoteOps /\ VoteFindChannel(r, c, v, value)
    \/ \E r \in Req : VoteFindExisting(r)
    \/ \E r \in Req : VoteWrite(r)
    \/ \E r \in Req : VoteUpdateScore(r)
    \/ \E r \in Req : CheckAutoBanRead(r)
    \/ \E r \in Req : CheckAutoBanWrite(r)

SpecVotes == InitVotes /\ [][NextVotes]_vars

\* two channels created at time 1, "xyz" banned by the admin, whose session was
\* issued at that time
InitVersion ==
    /\ channels = <<NewChannel("abc"), WithIsBanned(NewChannel("xyz"), TRUE)>>
    /\ nextId = 3
    /\ reports = SetToBag({[channelId |-> c, userId |-> "v1"] : c \in {1, 2}})
    /\ votes = EmptyBag
    /\ admins = {[username |-> "alice", password |-> HashPassword("pw1")]}
    /\ pc = [r \in Req |-> "idle"]
    /\ loc = [r \in Req |-> NoLoc]
    /\ nOps = 2
    /\ nAdmin = 0
    /\ nSetups = 1
    /\ okReports = [y \in ExternalIds |-> 1]
    /\ adminBanned = {2}
    /\ unbanApplied = {}
    /\ everMet = {}
    /\ sessions = {[token |-> TokenPool[1], username |-> "alice",
                    expiresAt |-> 1 + SESSION_TTL]}
    /\ now = 1
    /\ nTokens = 1
    /\ updatedAt = [c \in ChanIds |-> 1]
    /\ nAuth = 2
    /\ lastChanged = [u \in Usernames |-> ""]
    /\ ExtensionInstalled

\* the admin bans, unbans and deletes while clients poll the version
NextVersion ==
    \/ Tick
    \/ \E r \in Req, op \in ChannelOps, c \in AuthChannelIds :
          nAuth < 2 + MaxVersionOps /\ AuthFind(r, op, TokenPool[1], c, "", "")
    \/ \E r \in Req : AuthCheck(r)
    \/ \E r \in Req : nAuth < 2 + MaxVersionOps /\ ListVersion(r)

SpecVersion == InitVersion /\ [][NextVersion]_vars

\* the worker handling blocklist messages one at a time
NextBlocklist ==
    \/ \E m \in Msg, channel \in BlockedChannels :
          WorkerIdle /\ nMsgs < MaxBlocklistMsgs /\ AddRead(m, channel)
    \/ \E m \in Msg : AddWrite(m)
    \/ \E m \in Msg, channelId \in BlockIds :
          WorkerIdle /\ nMsgs < MaxBlocklistMsgs /\ RemoveRead(m, channelId)
    \/ \E m \in Msg : RemoveWrite(m)

SpecBlocklist == Init /\ [][NextBlocklist]_vars

\* amounts an UPDATE_STATS message carries, and the channel names
BlockedAmounts == {1, 2}

\* the worker with UPDATE_STATS messages and syncs arriving at any time
NextWorker ==
    \/ Tick
    \/ \E m \in Msg, blocked \in BlockedAmounts, name \in BlockNames :
          nMsgs < MaxWorkerMsgs /\ UpdateStatsRead(m, blocked, name)
    \/ \E m \in Msg : UpdateStatsWrite(m)
    \/ \E m \in Msg : nMsgs < MaxWorkerMsgs /\ FetchStart(m)
    \/ \E m \in Msg, outcome \in FetchOutcomes, data \in FetchBodies :
          FetchSettled(m, outcome, data)
    \/ \E m \in Msg : FetchStore(m)

SpecWorker == Init /\ [][NextWorker]_vars

\* C21: a bootstrapAdmin call made when an Admin row exists is answered
\* AdminAlreadyExists in its first step after the count, and no step of such a
\* call adds, removes or alters an Admin row.
C21_BootstrapAfterFirstAdminFails ==
    [][\A r \in Req :
          (loc[r].op = "setup" /\ ~loc[r].startedEmpty /\ pc[r] # "done"
           /\ pc'[r] # pc[r])
          => /\ pc[r] = "setup_count"
             /\ pc'[r] = "done"
             /\ loc'[r].res = "AdminAlreadyExists"
             /\ admins' = admins
      ]_vars

\* a bootstrap with another username and password than the admin's was turned away
C21_Witness ==
    \E r \in Req :
        /\ pc[r] = "done" /\ loc[r].op = "setup" /\ ~loc[r].startedEmpty
        /\ loc[r].res = "AdminAlreadyExists"
        /\ loc[r].username = "bob"
        /\ admins = {[username |-> "alice", password |-> HashPassword("pw1")]}

\* request r is a logout that starts (and ends) in this step
LogoutStep(r) ==
    Takes(r) /\ nAuth' = nAuth + 1 /\ pc'[r] = "done" /\ loc'[r].op = "logout"

\* C22: a logout is answered success whether or not a Session row of its token
\* exists (also without a token); after it no row of that token exists and every
\* other Session row is as before; a protected call that starts when its token
\* has no row is turned away with Unauthenticated.
C22_LogoutDeletesOnlyItsSession ==
    [][\A r \in Req :
          /\ LogoutStep(r)
             => /\ loc'[r].res = "ok" /\ loc'[r].status = 200
                /\ \A s \in sessions' : s.token # loc'[r].token
                /\ sessions' = {s \in sessions : s.token # loc'[r].token}
                /\ LedgerUnchanged /\ UNCHANGED admins
          /\ (AuthStep(r) /\ SessionByToken(loc[r].token) = {} /\ ~loc[r].sessFound)
             => TurnedAway(r)
      ]_vars

\* the first token was logged out while a second session exists: its row is gone,
\* the other row is still there
C22_Witness ==
    \E r \in Req :
        /\ pc[r] = "done" /\ loc[r].op = "logout" /\ loc[r].token = TokenPool[1]
        /\ loc[r].res = "ok"
        /\ {s.token : s \in sessions} = {TokenPool[2]}

\* C23: a changePassword that passed requireAdmin and whose currentPassword does
\* not match the hash it read is answered InvalidCredentials in that step, and the
\* step changes no Admin row and no Session row.
C23_WrongCurrentPasswordChangesNothing ==
    [][\A r \in Req :
          (pc[r] = "cp_update" /\ pc'[r] # "cp_update" /\ loc[r].adminFound
           /\ loc[r].adminHash # HashPassword(loc[r].password))
          => /\ pc'[r] = "done"
             /\ loc'[r].res = "InvalidCredentials"
             /\ admins' = admins
             /\ sessions' = sessions
             /\ lastChanged' = lastChanged
      ]_vars

\* a changePassword with the wrong current password was refused: the admin still
\* has the first password and the caller's session is still there
C23_Witness ==
    \E r \in Req :
        /\ pc[r] = "done" /\ loc[r].op = "changePassword"
        /\ loc[r].res = "InvalidCredentials"
        /\ SessionByToken(loc[r].token) # {}
        /\ admins = {[username |-> "alice", password |-> HashPassword("pw1")]}

\* C29: a login creates its Session row only while the hash it tested is still
\* the stored one, or while the changePassword that replaced it has yet to delete
\* the admin's sessions; so no session of a login that tested the old password is
\* left once changePassword has succeeded.
C29_NoSessionFromOldPassword ==
    [][\A r \in Req :
          (pc[r] = "login_check" /\ pc'[r] = "login_sweep")
          => \/ \E a \in admins : /\ a.username = loc[r].username
                                  /\ a.password = loc[r].adminHash
             \/ \E q \in Req : pc[q] = "cp_sessions" /\ loc[q].username = loc[r].username
      ]_vars

\* C24: when the first submitReport requests for an externalId have all been
\* answered, one Channel row exists for it, every one of them succeeded, and its
\* reportCount and its number of Report rows equal the number of requests.
C24_ConcurrentFirstReportsAllCounted ==
    (/\ \A r \in Req : pc[r] = "done" /\ loc[r].op = "report"
     /\ nOps = Cardinality(Req))
    => /\ \A r \in Req : loc[r].res = "ok"
       /\ \A y \in ExternalIds :
             /\ Cardinality({c \in DOMAIN channels : channels[c].youtubeId = y}) = 1
             /\ \A c \in DOMAIN channels :
                   /\ channels[c].reportCount = nOps
                   /\ ReportRows(c) = nOps

\* two answered first votes of distinct visitors on one channel that ran
\* concurrently (the second slot is taken only while the first is busy)
DistinctFirstVotes(r1, r2) ==
    /\ r1 # r2 /\ VoteReq(r1) /\ VoteReq(r2)
    /\ loc[r1].first /\ loc[r2].first
    /\ loc[r1].res = "ok" /\ loc[r2].res = "ok"
    /\ loc[r1].channelId = loc[r2].channelId
    /\ loc[r1].visitorId # loc[r2].visitorId
    /\ ChannelExists(loc[r1].channelId)
    \* every other request so far was a counted report of the channel
    /\ nOps = channels[loc[r1].channelId].reportCount + 2

\* C25: after concurrent first votes of distinct visitors on a channel have all
\* been answered, both Vote rows exist and the score is the score without them
\* (one per counted report) plus both cast values.
C25_ConcurrentVotesNoLostUpdate ==
    \A r1, r2 \in Req :
        (Idle /\ DistinctFirstVotes(r1, r2))
        => LET c == loc[r1].channelId
           IN /\ VoteRowCount(c, loc[r1].visitorId) = 1
              /\ VoteRowCount(c, loc[r2].visitorId) = 1
              /\ channels[c].score = channels[c].reportCount
                                     + loc[r1].value + loc[r2].value

C25_Witness ==
    \E r1, r2 \in Req :
        /\ Idle /\ DistinctFirstVotes(r1, r2)
        /\ loc[r1].value = 1 /\ loc[r2].value = 1
        /\ channels[loc[r1].channelId].score = channels[loc[r1].channelId].reportCount + 2
        /\ channels[loc[r1].channelId].reportCount >= 2

\* C28: the isBanned a successful castVote returns is the channel's stored
\* isBanned at the moment it answers, after checkAutoBan has run for that vote.
C28_VoteReturnsStoredBanState ==
    [][\A r \in Req :
          (loc[r].op = "vote" /\ pc[r] \in {"chk_read", "chk_write"}
           /\ pc'[r] = "done" /\ loc'[r].res = "ok")
          => loc'[r].resBanned = channels'[loc[r].channelId].isBanned
      ]_vars

\* C30: a successful submitReport or castVote on a channel whose counters, as it
\* answers, satisfy reportCount >= 5 and score >= 3 leaves the channel banned,
\* also when an admin had unbanned it and also when the vote was a negative one.
C30_NextMutationBansAgain ==
    [][\A r \in Req :
          (pc[r] # "done" /\ pc'[r] = "done" /\ loc'[r].res = "ok"
           /\ loc'[r].op \in {"report", "vote"}
           /\ loc'[r].channelId \in DOMAIN channels'
           /\ CountersSatisfyBoth(channels'[loc'[r].channelId]))
          => channels'[loc'[r].channelId].isBanned
      ]_vars

\* an unbanned channel with 5 reports was voted down to score 4 by one negative
\* vote and is banned again, by the automatic path
C30_Witness ==
    \E r \in Req : \E c \in unbanApplied \ adminBanned :
        /\ Idle /\ VoteReq(r) /\ loc[r].res = "ok" /\ loc[r].value = -1
        /\ loc[r].channelId = c
        /\ channels[c].isBanned
        /\ channels[c].reportCount = 5 /\ channels[c].score = 4

\* the invalid inputs of a submitReport: empty or over-long externalId or
\* displayName, a reason over 500 characters, a malformed evidenceUrl
MalformedReport(b) ==
    \/ b.youtubeId = 0 \/ b.youtubeId > YoutubeIdMax
    \/ b.channelName = 0 \/ b.channelName > ChannelNameMax
    \/ b.reason > ReasonMax
    \/ b.evidence = "not a url"

\* the invalid inputs of a castVote: value 0 or outside {-1, +1}
MalformedVote(b) == b.value \notin {0 - 10, 10}

RejectedAtIntake(r) ==
    /\ pc'[r] = "done" /\ loc'[r].res = "ValidationError"
    /\ LedgerUnchanged

\* C26: a submitReport or castVote request with an invalid input is answered
\* ValidationError in its one step, which leaves channels, reports and votes as
\* they were: a request step with any other outcome is the step of no such request.
C26_InvalidInputRejectedBeforeStore ==
    [][\A r \in Req :
          (Takes(r) /\ nOps' = nOps + 1 /\ ~RejectedAtIntake(r))
          => /\ \A b \in {x \in ReportBodies : MalformedReport(x)} :
                   \A y \in ExternalIds, v \in Reporters : ~SubmitReport(r, b, y, v)
             /\ \A b \in {x \in VoteBodies : MalformedVote(x)} :
                   \A c \in 1..nextId, v \in RaceVisitors : ~CastVote(r, b, c, v)
      ]_vars

\* a report and a vote were rejected at intake, and the store shows the one valid
\* report among the three requests and nothing else
C26_Witness ==
    /\ \E r1, r2 \in Req :
          /\ pc[r1] = "done" /\ loc[r1].op = "report" /\ loc[r1].res = "ValidationError"
          /\ pc[r2] = "done" /\ loc[r2].op = "vote" /\ loc[r2].res = "ValidationError"
    /\ nOps = 3
    /\ channels[1].reportCount = BAN_THRESHOLD_REPORTS
    /\ ReportRows(1) = BAN_THRESHOLD_REPORTS
    /\ votes = EmptyBag

\* C27: getVote answers voted = true and the stored value when a Vote row of the
\* (channel, visitor) pair exists, voted = false and 0 when none does, and its
\* step changes no stored row.
C27_GetVoteIsPureRead ==
    [][\A r \in Req :
          (Takes(r) /\ nOps' = nOps + 1 /\ loc'[r].op = "getVote")
          => LET c == loc'[r].channelId
                 v == loc'[r].visitorId
             IN /\ pc'[r] = "done"
                /\ (VoteRowsOf(c, v) = {})
                      => (~loc'[r].voted /\ loc'[r].value = 0)
                /\ (VoteRowsOf(c, v) # {})
                      => /\ loc'[r].voted
                         /\ \A row \in VoteRowsOf(c, v) : loc'[r].value = row.value
                /\ LedgerUnchanged
                /\ UNCHANGED <<admins, sessions>>
      ]_vars

\* one visitor's vote read back while the other visitor is told it has none
C27_Witness ==
    \E r1, r2 \in Req :
        /\ pc[r1] = "done" /\ loc[r1].op = "getVote" /\ loc[r1].voted
        /\ loc[r1].value = 0 - 1
        /\ pc[r2] = "done" /\ loc[r2].op = "getVote" /\ ~loc[r2].voted
        /\ loc[r2].channelId = loc[r1].channelId
        /\ VoteRowCount(loc[r1].channelId, loc[r1].visitorId) = 1
        /\ VoteRowCount(loc[r2].channelId, loc[r2].visitorId) = 0

\* the channel rows differ from before in nothing but the isBanned of channel c,
\* which is b, and no Report or Vote row has changed
SetsOnlyIsBanned(c, b) ==
    /\ c \in DOMAIN channels
    /\ DOMAIN channels' = DOMAIN channels
    /\ \A d \in DOMAIN channels :
          channels'[d] = IF d = c THEN [channels[d] EXCEPT !.isBanned = b] ELSE channels[d]
    /\ UNCHANGED <<nextId, reports, votes>>

\* C32: banChannel leaves the channel banned and unbanChannel leaves it not banned
\* whatever its counters are; the step changes no other column of the channel, no
\* other channel and no Report or Vote row, and is a no-op on a channel that
\* already has the requested state.
C32_AdminSetsOnlyBanFlag ==
    [][\A c \in ChanIds :
          /\ AdminBan(c) => /\ SetsOnlyIsBanned(c, TRUE)
                            /\ channels[c].isBanned => channels' = channels
          /\ AdminUnban(c) => /\ SetsOnlyIsBanned(c, FALSE)
                              /\ ~channels[c].isBanned => channels' = channels
      ]_vars

\* a channel whose counters meet both thresholds is not banned after an admin's
\* unban, and its counters and rows are the ones of its five reports
C32_Witness ==
    \E c \in unbanApplied :
        /\ Idle /\ ~channels[c].isBanned
        /\ channels[c].reportCount = 5 /\ channels[c].score = 5
        /\ ReportRows(c) = 5
        /\ nAdmin = 1

\* a step of checkAutoBan made for request r
CheckStep(r) == pc[r] \in {"chk_read", "chk_write"} /\ pc'[r] # pc[r]

\* C39: a step of checkAutoBan changes no reportCount, score or other column but
\* isBanned, of the evaluated channel only, and no Report or Vote row; it changes
\* nothing when the channel does not exist or the counters it read do not meet
\* both thresholds; and a banned channel stays banned.
C39_CheckAutoBanOnlySetsBanFlag ==
    [][\A r \in Req :
          CheckStep(r)
          => LET c == loc[r].channelId IN
             /\ UNCHANGED <<nextId, reports, votes>>
             /\ DOMAIN channels' = DOMAIN channels
             /\ \A d \in DOMAIN channels :
                   /\ d # c => channels'[d] = channels[d]
                   /\ channels'[d] = [channels[d] EXCEPT !.isBanned = channels'[d].isBanned]
                   /\ channels[d].isBanned => channels'[d].isBanned
             /\ channels' # channels
                   => /\ pc[r] = "chk_write"
                      /\ loc[r].chkReports >= 5 /\ loc[r].chkScore >= 3
             /\ (pc[r] = "chk_read"
                 /\ (c \notin DOMAIN channels \/ ~CountersSatisfyBoth(channels[c])))
                   => pc'[r] # "chk_write"
      ]_vars

\* checkAutoBan has run for a sixth report of a channel it had banned at the fifth
C39_Witness ==
    \E r \in Req : \E c \in DOMAIN channels :
        /\ Idle /\ nAdmin = 0
        /\ loc[r].op = "report" /\ loc[r].res = "ok" /\ loc[r].channelId = c
        /\ channels[c].isBanned
        /\ channels[c].reportCount = 6 /\ channels[c].score = 6
        /\ ReportRows(c) = 6

\* C35: a step of a castVote request changes, of all stored rows, at most the
\* score and isBanned of the channel voted on and the Vote row of the caller for
\* that channel: no reportCount, name or youtubeId, no Report row, no Vote row of
\* another visitor or channel, and no other channel.
C35_VoteTouchesOnlyScoreAndOwnRow ==
    [][\A r \in Req :
          (pc'[r] # pc[r] /\ loc'[r].op = "vote")
          => LET c == loc'[r].channelId
                 v == loc'[r].visitorId
             IN /\ UNCHANGED <<nextId, reports>>
                /\ DOMAIN channels' = DOMAIN channels
                /\ \A d \in DOMAIN channels :
                      /\ d # c => channels'[d] = channels[d]
                      /\ channels'[d] = [channels[d] EXCEPT
                                            !.score = channels'[d].score,
                                            !.isBanned = channels'[d].isBanned]
                /\ \A row \in BagToSet(votes) \cup BagToSet(votes') :
                      (row.channelId # c \/ row.visitorId # v)
                      => CopiesIn(row, votes') = CopiesIn(row, votes)
      ]_vars

\* v1 turned its negative vote on "abc" into a positive one: score 4, banned by
\* the evaluator; the other visitors' votes and channel "xyz" are as before
C35_Witness ==
    \E r \in Req :
        /\ Idle /\ VoteReq(r) /\ loc[r].res = "ok"
        /\ loc[r].channelId = 1 /\ loc[r].visitorId = "v1" /\ loc[r].value = 1
        /\ channels[1] = [NewChannel("abc") EXCEPT !.reportCount = 5, !.score = 4,
                                                   !.isBanned = TRUE]
        /\ channels[2] = NewChannel("xyz")
        /\ votes = SetToBag({[channelId |-> 1, visitorId |-> "v1", value |-> 1],
                             [channelId |-> 1, visitorId |-> "v2", value |-> 0 - 1],
                             [channelId |-> 1, visitorId |-> "v3", value |-> 0 - 1]})

\* the token has a session row that requireAdmin's test lets through at this time
ValidToken(t) == \E s \in sessions : s.token = t /\ ~(s.expiresAt < now)

TokensGenerated == {TokenPool[i] : i \in 1..nTokens}

\* C33: a verify that finds a session row whose expiresAt is not earlier than the
\* clock is answered ok and leaves the Session table as it is; a session row
\* appears only for a newly generated token, with expiresAt one lifetime after the
\* clock, and never changes; and a generated token that is not valid (expired,
\* or its row deleted by expiry, logout or a password change) is not valid in
\* the next state either.
C33_SessionLifetimeFixed ==
    [][/\ \A r \in Req :
             (pc[r] = "auth_check" /\ loc[r].op = "verify"
              /\ loc[r].sessFound /\ ~(loc[r].sessExp < now))
             => (pc'[r] # pc[r] => /\ loc'[r].res = "ok" /\ loc'[r].status = 200
                                   /\ sessions' = sessions)
       /\ \A s \in sessions' \ sessions :
             /\ s.token \notin TokensGenerated
             /\ s.expiresAt = now + SESSION_TTL
       /\ \A t \in TokensGenerated : ~ValidToken(t) => ~ValidToken(t)'
      ]_vars

\* a verify at the very instant of expiresAt succeeded and the row is as issued
C33_Witness ==
    \E r \in Req :
        /\ pc[r] = "done" /\ loc[r].op = "verify" /\ loc[r].res = "ok"
        /\ loc[r].token = TokenPool[1]
        /\ now = SESSION_TTL
        /\ sessions = {[token |-> TokenPool[1], username |-> "alice",
                        expiresAt |-> SESSION_TTL]}

C31_VersionDetectsEveryChange ==
    [][(/\ BannedIds' # BannedIds
        /\ \A c \in DOMAIN channels : updatedAt[c] < now)
       => BanlistVersion' # BanlistVersion
      ]_vars


\* no two entries of the stored personal blocklist have the same youtubeId
NoDuplicateIds(list) ==
    \A i, j \in 1..Len(list) : list[i].youtubeId = list[j].youtubeId => i = j

\* the entries of a list whose youtubeId is not the given one, in order
OtherEntries(list, channelId) ==
    SelectSeq(list, LAMBDA c : c.youtubeId # channelId)

\* C36: with ADD_TO_BLOCKLIST and REMOVE_FROM_BLOCKLIST handled one at a time, the
\* stored personal blocklist never holds two entries with the same youtubeId; adding
\* a channel whose id is present leaves the list as it was (and one whose id is
\* absent appends it), and removing an id leaves exactly the entries with other ids.
C36_BlocklistHasNoDuplicates ==
    /\ [](NoDuplicateIds(storage.personalBlocklist))
    /\ [][\A m \in Msg :
            /\ AddWrite(m) =>
                  storage'.personalBlocklist =
                    IF \E i \in 1..Len(storage.personalBlocklist) :
                         storage.personalBlocklist[i].youtubeId = wloc[m].channel.youtubeId
                    THEN storage.personalBlocklist
                    ELSE Append(storage.personalBlocklist, wloc[m].channel)
            /\ RemoveWrite(m) =>
                  /\ storage'.personalBlocklist =
                       OtherEntries(storage.personalBlocklist, wloc[m].channelId)
                  /\ \A i \in 1..Len(storage'.personalBlocklist) :
                       storage'.personalBlocklist[i].youtubeId # wloc[m].channelId
         ]_vars

\* a channel already listed under one name was added again under another name, and
\* the list still holds the one earlier entry
C36_Witness ==
    /\ wpc[1] = "done"
    /\ wloc[1].type = "ADD_TO_BLOCKLIST"
    /\ wloc[1].channel = [youtubeId |-> "abc", name |-> "n2"]
    /\ storage.personalBlocklist = <<[youtubeId |-> "abc", name |-> "n1"]>>

\* C37: once every UPDATE_STATS handler has finished, stored blockedTotal equals the
\* sum of the blocked amounts of all the messages received.
C37_EveryUpdateCounted ==
    WorkerIdle => storage.stats.blockedTotal = sumBlocked

\* C38: a fetch that fails (network error or non-OK response) ends the call with the
\* stored community list as its result and leaves storage as it was; stored
\* communityBlocklist and settings.lastSyncAt change only in the storing step of a
\* call whose fetch succeeded.
C38_FailedFetchKeepsCache ==
    [][/\ \A m \in Msg :
            (/\ wpc[m] = "fetch_wait" /\ wpc'[m] # "fetch_wait"
             /\ wloc'[m].outcome \in {"network error", "not ok"})
              => /\ wpc'[m] = "done"
                 /\ wloc'[m].result = storage.communityBlocklist
                 /\ storage' = storage
       /\ (\/ storage'.communityBlocklist # storage.communityBlocklist
           \/ storage'.settings.lastSyncAt # storage.settings.lastSyncAt)
            => \E m \in Msg : /\ wpc[m] = "fetch_store"
                               /\ wloc[m].type = "SYNC_COMMUNITY_LIST"
                               /\ wloc[m].outcome = "ok"
                               /\ wpc'[m] = "done"
      ]_vars

\* after a sync stored a list, a later fetch got a non-OK response and returned that
\* list, with the list and the time of the last sync still in storage
C38_Witness ==
    \E m \in Msg :
        /\ wpc[m] = "done"
        /\ wloc[m].type = "SYNC_COMMUNITY_LIST"
        /\ wloc[m].outcome = "not ok"
        /\ wloc[m].result = <<"abc">>
        /\ storage.communityBlocklist = <<"abc">>
        /\ storage.settings.lastSyncAt # NeverSynced
====
